---------------------------- MODULE Spec2Model ----------------------------
(***************************************************************************)
(* Verification model of the le-marche legacy migration command            *)
(* (lemarche/cocorico/management/commands/migrate_data_to_django.py) and   *)
(* of the BAN geocoding helper (lemarche/utils/apis/geocoding.py).         *)
(*                                                                         *)
(* The module holds several specifications over one set of variables; a    *)
(* specification leaves the variables of the other parts at their idle     *)
(* values:                                                                 *)
(*   SpecPure   the pure helpers (integer_to_boolean, map_siae_presta_type)*)
(*   SpecGeo    get_geocoding_data and the two functions it calls          *)
(*   SpecImage  Command.migrate_siae_image, row by row                     *)
(*   SpecHandle Command.handle running the enabled migrators, each as a    *)
(*              loop over its source rows                                  *)
(*   SpecReplace one migrator run twice on an unchanged source, with the   *)
(*              destination records it deletes and writes                  *)
(*   SpecSector Command.migrate_sector, row by row                         *)
(*   SpecAuth   the signup and login browser tests of www/auth             *)
(*   SpecDept   the import_departements command                            *)
(*   SpecLink   Command.migrate_user followed by migrate_siae_user         *)
(***************************************************************************)
EXTENDS Integers, Sequences, FiniteSets, TLC

VARIABLES
    \* ---- pure helpers
    ppc,          \* "call" before the helper is applied, "done" after
    pfun,         \* the helper that is called
    elem,         \* integer_to_boolean: the row dict (mutated in place)
    elem0,        \* integer_to_boolean: the row dict as it was passed
    presta_in,    \* map_siae_presta_type: input_value_byte
    presta_out,   \* map_siae_presta_type: what the call produced
    map_in,       \* the enum mappers: input_value
    map_out,      \* the enum mappers: what the call produced
    \* ---- geocoding (get_geocoding_data)
    gpc,          \* "request", "response", "process" or "done"
    gpost,        \* post_code as passed to get_geocoding_data
    gcur,         \* post_code of the running call_ban_geocoding_api call
    gsent,        \* per HTTP request sent: did the URL carry postcode=
    gresps,       \* the responses received, in order
    gfeature,     \* what call_ban_geocoding_api returned
    gresult,      \* what get_geocoding_data produced
    glogs,        \* number of logger.info calls
    \* ---- migrate_siae_image
    listing,              \* source table listing (rows in fetch order)
    listing_translation,  \* source table listing_translation
    listing_image,        \* source table listing_image
    dusers,               \* destination Users by c4_id, with their Siaes
    ipc,                  \* position in migrate_siae_image
    ik,                   \* index of the row (or listing) the loop is at
    ij,                   \* index of the image within the listing
    siae_listing_list,    \* the joined structure
    error_count,          \* the four error counters
    siae_images,          \* destination SiaeImage records
    iexc,                 \* the exception that left the migrator, if any
    \* ---- Command.handle and the row loops of the migrators
    enabled,      \* the migrators whose call in handle is not commented out
    hpc,          \* position in handle
    conn,         \* connMy: "none", "open" or "closed"
    hcur,         \* index in MIGRATORS of the statement handle is at
    hexc,         \* the exception raised inside the try block, if any
    hrollbacks,   \* number of connMy.rollback() calls
    hcloses,      \* number of connMy.close() calls
    mpc,          \* position in the running migrator
    mrows,        \* number of source rows the migrator fetched
    mrow,         \* index of the row the loop is at
    mout,         \* outcome of the last row step of the migrator
    mprinted,     \* number of row failures the migrator caught and printed
    hdest,        \* destination, per migrator: its pre-run records and its writes
    \* ---- one migrator run twice on an unchanged source
    rmig,         \* the migrator
    rsrc,         \* the rows of its source table, in fetch order
    rdest0,       \* the destination records of its type before the first run
    rdest,        \* the destination records of its type
    rafter1,      \* the destination as the first run left it
    rrun,         \* 1 or 2: the run
    rpc,          \* position in the migrator
    ridx,         \* index of the row the loop is at
    \* ---- migrate_sector
    category,           \* source table listing_category (rows in fetch order)
    translation,        \* source table listing_category_translation ('fr')
    spc,                \* position in migrate_sector
    sk,                 \* index of the row (first loop) or group (second loop)
    sj,                 \* index of the child within the group, 0 before the group is created
    sector_group_list,  \* the hierarchy built by the first loop
    sector_groups,      \* destination SectorGroup records
    sectors,            \* destination Sector records
    sexc,               \* the exception that left the migrator, if any
    \* ---- signup and login through the browser
    apc,          \* position in the test
    apage,        \* the page the browser is on
    anext,        \* whether the signup URL carried ?next=
    akind,        \* signup: the kind that was clicked
    afilled,      \* signup: the inputs that hold a value
    argpd,        \* signup: whether the RGPD box is checked
    ausers,       \* the User table
    ausers0,      \* the User table when the test started
    asession,     \* the email of the logged-in user, <<>> for none
    amessages,    \* the messages the page shows
    atyped,       \* login: the email and password typed
    \* ---- import_departements
    dry_run,      \* the --dry-run option
    json_data,    \* the content of departements.json
    perimeters,   \* the Perimeters of kind KIND_DEPARTMENT
    perimeters0,  \* the same before the command
    dpc,          \* position in handle
    di,           \* index of the item the loop is at
    dexc,         \* the exception that left handle, if any
    \* ---- migrate_user, then migrate_siae_user
    user_table,      \* source table user (rows in fetch order)
    directory_user,  \* source table directory_user
    dest_users,      \* destination User records
    dest_siaes,      \* the ids of the destination Siae records
    siae_users,      \* destination rows of Siae.users.through
    upc,             \* position in the two migrators
    uk,              \* index of the row the loop is at
    uexc             \* the exception that left a migrator, if any

pureVars == <<ppc, pfun, elem, elem0, presta_in, presta_out, map_in, map_out>>
geoVars == <<gpc, gpost, gcur, gsent, gresps, gfeature, gresult, glogs>>

imgVars == <<listing, listing_translation, listing_image, dusers, ipc, ik, ij,
            siae_listing_list, error_count, siae_images, iexc>>

handleVars == <<enabled, hpc, conn, hcur, hexc, hrollbacks, hcloses,
               mpc, mrows, mrow, mout, mprinted, hdest>>

replaceVars == <<rmig, rsrc, rdest0, rdest, rafter1, rrun, rpc, ridx>>

sectorVars == <<category, translation, spc, sk, sj, sector_group_list,
               sector_groups, sectors, sexc>>

authVars == <<apc, apage, anext, akind, afilled, argpd, ausers, ausers0,
             asession, amessages, atyped>>

deptVars == <<dry_run, json_data, perimeters, perimeters0, dpc, di, dexc>>

linkVars == <<user_table, directory_user, dest_users, dest_siaes, siae_users, upc, uk, uexc>>

vars == <<pureVars, geoVars, imgVars, handleVars, replaceVars, sectorVars, authVars,
          deptVars, linkVars>>

\* What the actions of one part leave unchanged: the variables of the others.
notPure ==
    <<geoVars, imgVars, handleVars, replaceVars, sectorVars, authVars, deptVars, linkVars>>
notGeo ==
    <<pureVars, imgVars, handleVars, replaceVars, sectorVars, authVars, deptVars, linkVars>>
notImg ==
    <<pureVars, geoVars, handleVars, replaceVars, sectorVars, authVars, deptVars, linkVars>>
notHandle ==
    <<pureVars, geoVars, imgVars, replaceVars, sectorVars, authVars, deptVars, linkVars>>
notReplace ==
    <<pureVars, geoVars, imgVars, handleVars, sectorVars, authVars, deptVars, linkVars>>
notSector ==
    <<pureVars, geoVars, imgVars, handleVars, replaceVars, authVars, deptVars, linkVars>>
notAuth ==
    <<pureVars, geoVars, imgVars, handleVars, replaceVars, sectorVars, deptVars, linkVars>>
notDept ==
    <<pureVars, geoVars, imgVars, handleVars, replaceVars, sectorVars, authVars, linkVars>>
notLink ==
    <<pureVars, geoVars, imgVars, handleVars, replaceVars, sectorVars, authVars, deptVars>>

(***************************************************************************)
(* Python values.  A value is a record of one shape so that any two can be *)
(* compared: t is the Python type, i the numeric payload, s the text.      *)
(***************************************************************************)
PyNone == [t |-> "none", i |-> 0, s |-> ""]
PyInt(n) == [t |-> "int", i |-> n, s |-> ""]
PyBool(b) == [t |-> "bool", i |-> IF b THEN 1 ELSE 0, s |-> ""]
PyStr(x) == [t |-> "str", i |-> 0, s |-> x]
PyBytes(x) == [t |-> "bytes", i |-> 0, s |-> x]
PyTrue == PyBool(TRUE)
PyFalse == PyBool(FALSE)

\* Python's ==: bool is a subclass of int (True == 1, False == 0); str and
\* bytes never compare equal; None equals only None.
PyEq(a, b) ==
    IF a.t \in {"int", "bool"} /\ b.t \in {"int", "bool"} THEN a.i = b.i
    ELSE a.t = b.t /\ a.i = b.i /\ a.s = b.s

\* Python's `x in [..]` on a list literal: equality with some member.
PyIn(x, list) == \E j \in 1..Len(list) : PyEq(x, list[j])

(***************************************************************************)
(* integer_to_boolean                                                      *)
(***************************************************************************)
\* The names of the BooleanField columns of Siae and User.  The two model
\* classes are outside the migrated files; these are columns the command
\* itself names (is_active, is_qpv) and a User flag.
DIRECTORY_BOOLEAN_FIELDS == {"is_active", "is_qpv"}
USER_BOOLEAN_FIELDS == {"is_active", "accept_rgpd"}
boolean_keys == DIRECTORY_BOOLEAN_FIELDS \cup USER_BOOLEAN_FIELDS

\* Mutant: the final else keeps the value instead of forcing False.
CoerceBooleanKeepsUnknown(v) ==
    IF PyIn(v, <<PyInt(1), PyStr("1")>>) THEN PyTrue
    ELSE IF PyIn(v, <<PyInt(0), PyStr("0")>>) THEN PyFalse
    ELSE IF PyIn(v, <<PyNone>>) THEN PyNone
    ELSE v

\* The if / elif chain applied to one value.
CoerceBoolean(v) ==
    IF PyIn(v, <<PyInt(1), PyStr("1")>>) THEN PyTrue
    ELSE IF PyIn(v, <<PyInt(0), PyStr("0")>>) THEN PyFalse
    ELSE IF PyIn(v, <<PyNone>>) THEN PyNone
    ELSE PyFalse

\* The dict after the call: only keys present in the dict are rewritten.
integer_to_boolean(e) ==
    [k \in DOMAIN e |-> IF k \in boolean_keys THEN CoerceBoolean(e[k]) ELSE e[k]]

(***************************************************************************)
(* map_siae_presta_type                                                    *)
(***************************************************************************)
PRESTA_DISP == "DISP"
PRESTA_PREST == "PREST"
PRESTA_BUILD == "BUILD"

\* bytes.decode(): strict UTF-8.  A byte string is a sequence of byte values;
\* bytes below 128 decode to their ASCII character, and the model's only
\* other byte, 255, starts no UTF-8 sequence: UnicodeDecodeError.
Chr(b) ==
    CASE b = 48 -> "0" [] b = 49 -> "1" [] b = 50 -> "2" [] b = 52 -> "4"
      [] b = 54 -> "6" [] b = 56 -> "8" [] OTHER -> "?"
Decodable(bs) == \A j \in 1..Len(bs) : bs[j] < 128
Decode(bs) == [j \in 1..Len(bs) |-> Chr(bs[j])]

\* presta_type_mapping; a key is the decoded string as a sequence of characters.
presta_type_keys ==
    {<<"0">>, <<"2">>, <<"4">>, <<"6">>, <<"8">>, <<"1", "0">>, <<"1", "2">>, <<"1", "4">>}
presta_type_mapping(k) ==
    CASE k = <<"0">> -> <<>>
      [] k = <<"2">> -> <<PRESTA_DISP>>
      [] k = <<"4">> -> <<PRESTA_PREST>>
      [] k = <<"6">> -> <<PRESTA_DISP, PRESTA_PREST>>
      [] k = <<"8">> -> <<PRESTA_BUILD>>
      [] k = <<"1", "0">> -> <<PRESTA_DISP, PRESTA_BUILD>>
      [] k = <<"1", "2">> -> <<PRESTA_PREST, PRESTA_BUILD>>
      [] k = <<"1", "4">> -> <<PRESTA_DISP, PRESTA_PREST, PRESTA_BUILD>>

\* An outcome of a call: a returned list, a returned None, or an exception.
RetList(l) == [kind |-> "list", tags |-> l, exc |-> ""]
RetNone == [kind |-> "none", tags |-> <<>>, exc |-> ""]
Raised(e) == [kind |-> "raise", tags |-> <<>>, exc |-> e]

\* input is None or a byte string: [none |-> BOOLEAN, bytes |-> Seq(0..255)].
map_siae_presta_type(input) ==
    IF input.none \/ Len(input.bytes) = 0 THEN RetNone       \* `if input_value_byte:`
    ELSE IF ~Decodable(input.bytes) THEN Raised("UnicodeDecodeError")
    ELSE IF Decode(input.bytes) \in presta_type_keys
         THEN RetList(presta_type_mapping(Decode(input.bytes)))
    ELSE RetNone                                             \* except: pass

(***************************************************************************)
(* map_siae_nature, map_geo_range, map_user_kind                           *)
(***************************************************************************)
\* Python truthiness of a value (`if input_value:`).
PyTruthy(v) ==
    CASE v.t = "none" -> FALSE
      [] v.t \in {"int", "bool"} -> v.i # 0
      [] OTHER -> v.s # ""

\* A returned enum value of the destination (Siae.NATURE_*, GEO_RANGE_*,
\* User.KIND_*), by the name of its constant.
RetEnum(x) == [kind |-> "enum", tags |-> <<x>>, exc |-> ""]

\* nature_mapping[input_value]: no try around the lookup.  The "n/a" key maps
\* to None; the None key is never looked up (None is falsy).
map_siae_nature(v) ==
    IF ~PyTruthy(v) THEN RetNone
    ELSE IF PyEq(v, PyStr("siege")) THEN RetEnum("NATURE_HEAD_OFFICE")
    ELSE IF PyEq(v, PyStr("antenne")) THEN RetEnum("NATURE_ANTENNA")
    ELSE IF PyEq(v, PyStr("n/a")) THEN RetNone
    ELSE Raised("KeyError")

geo_range_mapping(n) ==
    CASE n = 3 -> "GEO_RANGE_COUNTRY" [] n = 2 -> "GEO_RANGE_REGION"
      [] n = 1 -> "GEO_RANGE_DEPARTMENT" [] n = 0 -> "GEO_RANGE_CUSTOM"

\* A dict lookup finds the key that is == to the value (True finds 1).
map_geo_range(v) ==
    IF \E n \in 0..3 : PyEq(v, PyInt(n)) THEN RetEnum(geo_range_mapping(v.i))
    ELSE RetNone                     \* the None key, or except: return None

user_kind_mapping(n) ==
    CASE n = 3 -> "KIND_BUYER" [] n = 4 -> "KIND_SIAE"
      [] n = 5 -> "KIND_ADMIN" [] n = 6 -> "KIND_PARTNER"

\* Mutant: the lookup of map_user_kind is not inside try / except.
MapUserKindUnguarded(v) ==
    IF ~PyTruthy(v) THEN RetNone
    ELSE IF \E n \in 3..6 : PyEq(v, PyInt(n)) THEN RetEnum(user_kind_mapping(v.i))
    ELSE Raised("KeyError")

map_user_kind(v) ==
    IF ~PyTruthy(v) THEN RetNone
    ELSE IF \E n \in 3..6 : PyEq(v, PyInt(n)) THEN RetEnum(user_kind_mapping(v.i))
    ELSE RetNone                     \* except: pass, then return None

(***************************************************************************)
(* Inputs of the pure helpers                                              *)
(***************************************************************************)
MaxInt == 2
MaxCodeLen == 2

RowKeys == boolean_keys \cup {"name"}
RowValues ==
    {PyInt(n) : n \in 0..MaxInt} \cup {PyStr("0"), PyStr("1"), PyStr("yes")}
        \cup {PyNone, PyTrue, PyFalse, PyBytes("1")}
Rows == UNION {[D -> RowValues] : D \in SUBSET RowKeys}

CodeBytes == {48, 49, 50, 52, 54, 56, 255}
ByteStrings == UNION {[1..n -> CodeBytes] : n \in 0..MaxCodeLen}
PrestaInputs ==
    {[none |-> TRUE, bytes |-> <<>>]} \cup {[none |-> FALSE, bytes |-> b] : b \in ByteStrings}

\* Inputs of the three enum mappers: None, booleans, the integers of the
\* tables and MaxInt more on either side, known and unknown strings.
MapperInputs ==
    {PyNone, PyTrue, PyFalse}
        \cup {PyInt(n) : n \in (0 - MaxInt)..(6 + MaxInt)}
        \cup {PyStr(x) : x \in {"", "siege", "antenne", "n/a", "autre", "SIEGE", "3"}}
MapperNames == {"map_siae_nature", "map_geo_range", "map_user_kind"}

NoRow == [k \in {} |-> PyNone]
NoPresta == [none |-> TRUE, bytes |-> <<>>]

PureIdle ==
    /\ ppc = "idle" /\ pfun = "none"
    /\ elem = NoRow /\ elem0 = NoRow
    /\ presta_in = NoPresta /\ presta_out = RetNone
    /\ map_in = PyNone /\ map_out = RetNone

StartPure ==
    /\ ppc = "call"
    /\ \/ /\ pfun = "integer_to_boolean"
          /\ elem \in Rows /\ elem0 = elem
          /\ presta_in = NoPresta /\ presta_out = RetNone
          /\ map_in = PyNone /\ map_out = RetNone
       \/ /\ pfun = "map_siae_presta_type"
          /\ presta_in \in PrestaInputs /\ presta_out = RetNone
          /\ elem = NoRow /\ elem0 = NoRow
          /\ map_in = PyNone /\ map_out = RetNone
       \/ /\ pfun \in MapperNames
          /\ map_in \in MapperInputs /\ map_out = RetNone
          /\ elem = NoRow /\ elem0 = NoRow
          /\ presta_in = NoPresta /\ presta_out = RetNone

CallIntegerToBoolean ==
    /\ ppc = "call" /\ pfun = "integer_to_boolean"
    /\ elem' = integer_to_boolean(elem)
    /\ ppc' = "done"
    /\ UNCHANGED <<pfun, elem0, presta_in, presta_out, map_in, map_out>>
    /\ UNCHANGED notPure

CallMapSiaePrestaType ==
    /\ ppc = "call" /\ pfun = "map_siae_presta_type"
    /\ presta_out' = map_siae_presta_type(presta_in)
    /\ ppc' = "done"
    /\ UNCHANGED <<pfun, elem, elem0, presta_in, map_in, map_out>>
    /\ UNCHANGED notPure

CallMapSiaeNature ==
    /\ ppc = "call" /\ pfun = "map_siae_nature"
    /\ map_out' = map_siae_nature(map_in)
    /\ ppc' = "done"
    /\ UNCHANGED <<pfun, elem, elem0, presta_in, presta_out, map_in>>
    /\ UNCHANGED notPure

CallMapGeoRange ==
    /\ ppc = "call" /\ pfun = "map_geo_range"
    /\ map_out' = map_geo_range(map_in)
    /\ ppc' = "done"
    /\ UNCHANGED <<pfun, elem, elem0, presta_in, presta_out, map_in>>
    /\ UNCHANGED notPure

CallMapUserKind ==
    /\ ppc = "call" /\ pfun = "map_user_kind"
    /\ map_out' = map_user_kind(map_in)
    /\ ppc' = "done"
    /\ UNCHANGED <<pfun, elem, elem0, presta_in, presta_out, map_in>>
    /\ UNCHANGED notPure

(***************************************************************************)
(* Geocoding: get_geocoding_data -> call_ban_geocoding_api ->              *)
(* process_geocoding_data                                                  *)
(***************************************************************************)
MaxCoord == 10

\* A GeoJSON feature as process_geocoding_data reads it.  empty: the feature
\* is {}; props: the "properties" member is absent ("none"), {} ("empty"),
\* lacks one of score/name/postcode/citycode/city ("partial") or has them all
\* ("full"); geom: "geometry" holds coordinates [x, y].
Feature(e, p, g, x, y) == [empty |-> e, props |-> p, geom |-> g, x |-> x, y |-> y]
NoFeature == Feature(TRUE, "none", FALSE, 0, 0)
Coords == (0 - MaxCoord)..MaxCoord
Features ==
    {NoFeature}
        \cup {Feature(FALSE, p, g, 0, 0) : p \in {"none", "empty", "partial"}, g \in BOOLEAN}
        \cup {Feature(FALSE, "full", FALSE, 0, 0)}
        \cup {Feature(FALSE, "full", TRUE, x, y) : x \in Coords, y \in Coords}

\* What one requests.get(url) leads to.
Response(k, f) == [kind |-> k, f |-> f]
Responses ==
    {Response(k, NoFeature) :
        k \in {"network_error", "not_json", "no_features_key", "features_null", "empty"}}
        \cup {Response("feature", f) : f \in Features}

\* post_code values: None, "" (falsy) and a non-empty string.
PostCodes == {"none", "empty", "set"}
Truthy(post_code) == post_code = "set"

\* f"{n}" for an integer: an optional sign and the decimal digits.
DigitChars == <<"0", "1", "2", "3", "4", "5", "6", "7", "8", "9">>
RECURSIVE FormatNat(_)
FormatNat(n) == IF n < 10 THEN <<DigitChars[n + 1]>>
                ELSE Append(FormatNat(n \div 10), DigitChars[(n % 10) + 1])
FormatNum(n) == IF n < 0 THEN <<"-">> \o FormatNat(0 - n) ELSE FormatNat(n)

\* The number GEOS reads back from the WKT text.
DigitVal(c) == CHOOSE d \in 0..9 : DigitChars[d + 1] = c
RECURSIVE ParseNat(_)
ParseNat(cs) == IF Len(cs) = 0 THEN 0
                ELSE 10 * ParseNat(SubSeq(cs, 1, Len(cs) - 1)) + DigitVal(cs[Len(cs)])
ParseNum(cs) == IF cs[1] = "-" THEN 0 - ParseNat(Tail(cs)) ELSE ParseNat(cs)

\* f"POINT({longitude} {latitude})", the WKT text handed to GEOSGeometry.
WktPoint(longitude, latitude) ==
    <<"POINT(">> \o FormatNum(longitude) \o <<" ">> \o FormatNum(latitude) \o <<")">>

\* GEOSGeometry(wkt): the point <<x, y>> read from the text between the
\* parentheses, x before the blank and y after it.
GEOSGeometry(wkt) ==
    LET inner == SubSeq(wkt, 2, Len(wkt) - 1)
        sp == CHOOSE j \in 1..Len(inner) : inner[j] = " "
    IN <<ParseNum(SubSeq(inner, 1, sp - 1)), ParseNum(SubSeq(inner, sp + 1, Len(inner)))>>

\* Results of get_geocoding_data.
GeoPending == [kind |-> "pending", exc |-> "", longitude |-> 0, latitude |-> 0, coords |-> <<0, 0>>]
GeoNone == [kind |-> "none", exc |-> "", longitude |-> 0, latitude |-> 0, coords |-> <<0, 0>>]
GeoRaise(e) == [kind |-> "raise", exc |-> e, longitude |-> 0, latitude |-> 0, coords |-> <<0, 0>>]
GeoDict(lon, lat, pt) == [kind |-> "dict", exc |-> "", longitude |-> lon, latitude |-> lat, coords |-> pt]

\* Mutant: longitude and latitude read from the wrong coordinates.
ProcessSwapsCoordinates(data) ==
    IF data.none \/ data.f.empty THEN GeoNone
    ELSE IF data.f.props \in {"none", "empty"} THEN GeoNone
    ELSE IF ~data.f.geom THEN GeoRaise("KeyError")
    ELSE IF data.f.props = "partial" THEN GeoRaise("KeyError")
    ELSE GeoDict(data.f.y, data.f.x, GEOSGeometry(WktPoint(data.f.y, data.f.x)))

\* process_geocoding_data(data); data is [none |-> BOOLEAN, f |-> feature].
process_geocoding_data(data) ==
    IF data.none \/ data.f.empty THEN GeoNone                   \* if not data
    ELSE IF data.f.props \in {"none", "empty"} THEN GeoNone     \* if not data.get("properties")
    ELSE IF ~data.f.geom THEN GeoRaise("KeyError")              \* data["geometry"]
    ELSE IF data.f.props = "partial" THEN GeoRaise("KeyError")  \* data["properties"]["score"], ..
    ELSE GeoDict(data.f.x, data.f.y, GEOSGeometry(WktPoint(data.f.x, data.f.y)))

\* Mutant: the retry passes the post_code again.
RetryKeepsPostCode(post_code) == post_code

\* The post_code of the retry, call_ban_geocoding_api(address): the default, None.
RetryPostCode(post_code) == "none"

ReturnedNone == [none |-> TRUE, f |-> NoFeature]
Returned(f) == [none |-> FALSE, f |-> f]

GeoIdle ==
    /\ gpc = "idle" /\ gpost = "none" /\ gcur = "none"
    /\ gsent = <<>> /\ gresps = <<>>
    /\ gfeature = ReturnedNone /\ gresult = GeoPending /\ glogs = 0

\* get_geocoding_data(address, post_code) is called.
StartGeo ==
    /\ gpc = "request"
    /\ gpost \in PostCodes /\ gcur = gpost
    /\ gsent = <<>> /\ gresps = <<>>
    /\ gfeature = ReturnedNone /\ gresult = GeoPending /\ glogs = 0

\* call_ban_geocoding_api up to requests.get(url).  When requests.get raises,
\* the except clause names requests.RequestError, which the requests package
\* does not define: evaluating it raises AttributeError, which leaves
\* call_ban_geocoding_api and get_geocoding_data.
HttpGet ==
    /\ gpc = "request"
    /\ gsent' = Append(gsent, Truthy(gcur))
    /\ \E r \in Responses :
          /\ gresps' = Append(gresps, r)
          /\ IF r.kind = "network_error"
             THEN gpc' = "done" /\ gresult' = GeoRaise("AttributeError")
             ELSE gpc' = "response" /\ UNCHANGED gresult
    /\ UNCHANGED <<gpost, gcur, gfeature, glogs>>
    /\ UNCHANGED notGeo

\* return r.json()["features"][0] and its except clauses.
HandleResponse ==
    /\ gpc = "response"
    /\ LET r == gresps[Len(gresps)] IN
       CASE r.kind = "feature" ->
              /\ gfeature' = Returned(r.f) /\ gpc' = "process"
              /\ UNCHANGED <<gcur, gresult, glogs>>
         [] r.kind = "empty" /\ Truthy(gcur) ->          \* IndexError, post_code set
              /\ gcur' = RetryPostCode(gcur) /\ gpc' = "request"
              /\ UNCHANGED <<gfeature, gresult, glogs>>
         [] r.kind = "empty" /\ ~Truthy(gcur) ->         \* IndexError, no post_code
              /\ gfeature' = ReturnedNone /\ gpc' = "process" /\ glogs' = glogs + 1
              /\ UNCHANGED <<gcur, gresult>>
         [] r.kind \in {"no_features_key", "not_json"} -> \* KeyError, JSONDecodeError
              /\ gfeature' = ReturnedNone /\ gpc' = "process" /\ glogs' = glogs + 1
              /\ UNCHANGED <<gcur, gresult>>
         [] r.kind = "features_null" ->                  \* None[0]: TypeError, not caught
              /\ gresult' = GeoRaise("TypeError") /\ gpc' = "done"
              /\ UNCHANGED <<gcur, gfeature, glogs>>
    /\ UNCHANGED <<gpost, gsent, gresps>>
    /\ UNCHANGED notGeo

\* return process_geocoding_data(geocoding_data)
ProcessGeocodingData ==
    /\ gpc = "process"
    /\ gresult' = process_geocoding_data(gfeature)
    /\ gpc' = "done"
    /\ UNCHANGED <<gpost, gcur, gsent, gresps, gfeature, glogs>>
    /\ UNCHANGED notGeo

(***************************************************************************)
(* Command.migrate_siae_image                                              *)
(***************************************************************************)
MaxListings == 2
MaxTranslations == 2
MaxImages == 2
MaxUsers == 2
MaxSiaes == 2

ListingIds == 1..MaxListings
UserIds == 1..MaxUsers
SiaeIds == 1..MaxSiaes

\* Sequences of at most n elements of S.
SeqUpTo(S, n) == UNION {[1..m -> S] : m \in 0..n}

\* listing: id is the primary key, so the ids of a table are distinct.
ListingRow(id, user) == [id |-> id, user_id |-> user]
ListingTables ==
    {t \in SeqUpTo({ListingRow(id, u) : id \in ListingIds, u \in UserIds}, MaxListings) :
        \A a, b \in 1..Len(t) : a # b => t[a].id # t[b].id}

\* listing_translation: translatable_id names a listing; the title (name) of
\* a row is told apart by the row's number.
TranslationTables ==
    {[j \in 1..Len(t) |-> [translatable_id |-> t[j], name |-> j]] :
        t \in SeqUpTo(ListingIds, MaxTranslations)}

\* listing_image: listing_id may name a listing that has no row (MaxListings + 1);
\* the file name and the position of a row are told apart by the row's number.
ImageTables ==
    {[j \in 1..Len(t) |-> [listing_id |-> t[j], image_name |-> j, position |-> j]] :
        t \in SeqUpTo(1..(MaxListings + 1), MaxImages)}

\* Destination users by c4_id: absent, or present with the set of linked Siaes.
NoUser == [present |-> FALSE, siaes |-> {}]
UserTables ==
    [UserIds -> {NoUser} \cup {[present |-> TRUE, siaes |-> S] : S \in SUBSET SiaeIds}]

\* A SiaeImage left by an earlier run.
StaleImage == [c4_listing_id |-> 0, image_name |-> 0, order |-> 0, name |-> 0, siae_id |-> 1]

NoErrors ==
    [listing_without_image |-> 0, user_not_found |-> 0, user_no_siae |-> 0,
     user_multiple_siae |-> 0]

\* next((index for (index, si) in enumerate(l) if si["listing_id"] == id), None):
\* the 0-based index of the first entry with that id, or None.
ListingIndex(l, id) ==
    IF \E a \in 1..Len(l) : l[a].listing_id = id
    THEN [none |-> FALSE,
          index |-> (CHOOSE a \in 1..Len(l) :
                        /\ l[a].listing_id = id
                        /\ \A b \in 1..(a - 1) : l[b].listing_id # id) - 1]
    ELSE [none |-> TRUE, index |-> 0]

\* `if siae_listing_index:` None and the index 0 are both falsy.
IndexIsTruthy(r) == ~r.none /\ r.index # 0

\* users.first().siaes.first(): the Siae of lowest id.
FirstSiae(S) == CHOOSE x \in S : \A y \in S : x <= y

Bump(ec, key) == [ec EXCEPT ![key] = @ + 1]

ImgIdle ==
    /\ listing = <<>> /\ listing_translation = <<>> /\ listing_image = <<>>
    /\ dusers = [u \in UserIds |-> NoUser]
    /\ ipc = "idle" /\ ik = 0 /\ ij = 0
    /\ siae_listing_list = <<>> /\ error_count = NoErrors
    /\ siae_images = <<>> /\ iexc = ""

\* migrate_siae_image(cur) is entered with some source tables and destination.
StartImg ==
    /\ listing \in ListingTables
    /\ listing_translation \in TranslationTables
    /\ listing_image \in ImageTables
    /\ dusers \in UserTables
    /\ ipc = "delete" /\ ik = 0 /\ ij = 0
    /\ siae_listing_list = <<>> /\ error_count = NoErrors
    /\ siae_images \in {<<>>, <<StaleImage>>} /\ iexc = ""

\* SiaeImage.objects.all().delete(), then SELECT * FROM listing.
ImgDeleteAll ==
    /\ ipc = "delete"
    /\ siae_images' = <<>>
    /\ ipc' = "listing" /\ ik' = 1
    /\ UNCHANGED <<listing, listing_translation, listing_image, dusers, ij,
                   siae_listing_list, error_count, iexc>>
    /\ UNCHANGED notImg

\* One row of the first loop: the thin listing with an empty images list.
ImgListingRow ==
    /\ ipc = "listing" /\ ik <= Len(listing)
    /\ siae_listing_list' =
          Append(siae_listing_list,
                 [listing_id |-> listing[ik].id, user_id |-> listing[ik].user_id,
                  translated |-> FALSE, name |-> 0, images |-> <<>>])
    /\ ik' = ik + 1
    /\ UNCHANGED <<listing, listing_translation, listing_image, dusers, ipc, ij,
                   error_count, siae_images, iexc>>
    /\ UNCHANGED notImg

\* SELECT * FROM listing_translation.
ImgFetchTranslations ==
    /\ ipc = "listing" /\ ik > Len(listing)
    /\ ipc' = "translation" /\ ik' = 1
    /\ UNCHANGED <<listing, listing_translation, listing_image, dusers, ij,
                   siae_listing_list, error_count, siae_images, iexc>>
    /\ UNCHANGED notImg

\* One row of the second loop: merge translatable_id, name, description into
\* the listing found, when the index found is truthy.
ImgTranslationRow ==
    /\ ipc = "translation" /\ ik <= Len(listing_translation)
    /\ LET row == listing_translation[ik]
           siae_listing_index == ListingIndex(siae_listing_list, row.translatable_id)
       IN IF IndexIsTruthy(siae_listing_index)
          THEN siae_listing_list' =
                  [siae_listing_list EXCEPT ![siae_listing_index.index + 1] =
                      [@ EXCEPT !.translated = TRUE, !.name = row.name]]
          ELSE UNCHANGED siae_listing_list
    /\ ik' = ik + 1
    /\ UNCHANGED <<listing, listing_translation, listing_image, dusers, ipc, ij,
                   error_count, siae_images, iexc>>
    /\ UNCHANGED notImg

\* SELECT * FROM listing_image.
ImgFetchImages ==
    /\ ipc = "translation" /\ ik > Len(listing_translation)
    /\ ipc' = "image" /\ ik' = 1
    /\ UNCHANGED <<listing, listing_translation, listing_image, dusers, ij,
                   siae_listing_list, error_count, siae_images, iexc>>
    /\ UNCHANGED notImg

\* One row of the third loop: append the thin image to the listing found,
\* when the index found is truthy.
ImgImageRow ==
    /\ ipc = "image" /\ ik <= Len(listing_image)
    /\ LET row == listing_image[ik]
           siae_listing_index == ListingIndex(siae_listing_list, row.listing_id)
       IN IF IndexIsTruthy(siae_listing_index)
          THEN siae_listing_list' =
                  [siae_listing_list EXCEPT ![siae_listing_index.index + 1].images =
                      Append(@, [image_name |-> row.image_name, position |-> row.position])]
          ELSE UNCHANGED siae_listing_list
    /\ ik' = ik + 1
    /\ UNCHANGED <<listing, listing_translation, listing_image, dusers, ipc, ij,
                   error_count, siae_images, iexc>>
    /\ UNCHANGED notImg

\* error_count = {...: 0}, before the loop over the joined listings.
ImgStartResolve ==
    /\ ipc = "image" /\ ik > Len(listing_image)
    /\ error_count' = NoErrors
    /\ ipc' = "resolve" /\ ik' = 1 /\ ij' = 1
    /\ UNCHANGED <<listing, listing_translation, listing_image, dusers,
                   siae_listing_list, siae_images, iexc>>
    /\ UNCHANGED notImg

\* A listing without images: count it and go to the next listing.
ImgListingWithoutImage ==
    /\ ipc = "resolve" /\ ik <= Len(siae_listing_list)
    /\ Len(siae_listing_list[ik].images) = 0
    /\ error_count' = Bump(error_count, "listing_without_image")
    /\ ik' = ik + 1 /\ ij' = 1
    /\ UNCHANGED <<listing, listing_translation, listing_image, dusers, ipc,
                   siae_listing_list, siae_images, iexc>>
    /\ UNCHANGED notImg

\* One image of a listing: find the user by c4_id and the user's Siaes; count
\* an error, or pop the listing-only keys and create the SiaeImage.  The pop of
\* "translatable_id" raises KeyError when no translation was merged.
ImgResolveImage ==
    /\ ipc = "resolve" /\ ik <= Len(siae_listing_list)
    /\ ij <= Len(siae_listing_list[ik].images)
    /\ LET siae_listing == siae_listing_list[ik]
           siae_image == siae_listing.images[ij]
           user == dusers[siae_listing.user_id]
           last == ij = Len(siae_listing.images)
           goOn == /\ ipc' = ipc /\ iexc' = iexc
                   /\ ik' = (IF last THEN ik + 1 ELSE ik)
                   /\ ij' = (IF last THEN 1 ELSE ij + 1)
       IN IF ~user.present
          THEN /\ error_count' = Bump(error_count, "user_not_found")
               /\ goOn /\ UNCHANGED siae_images
          ELSE IF Cardinality(user.siaes) > 1
          THEN /\ error_count' = Bump(error_count, "user_multiple_siae")
               /\ goOn /\ UNCHANGED siae_images
          ELSE IF Cardinality(user.siaes) = 0
          THEN /\ error_count' = Bump(error_count, "user_no_siae")
               /\ goOn /\ UNCHANGED siae_images
          ELSE IF ~siae_listing.translated
          THEN /\ ipc' = "raised" /\ iexc' = "KeyError"
               /\ UNCHANGED <<ik, ij, error_count, siae_images>>
          ELSE /\ siae_images' =
                     Append(siae_images,
                            [c4_listing_id |-> siae_listing.listing_id,
                             image_name |-> siae_image.image_name,
                             order |-> siae_image.position,
                             name |-> siae_listing.name,
                             siae_id |-> FirstSiae(user.siaes)])
               /\ goOn /\ UNCHANGED error_count
    /\ UNCHANGED <<listing, listing_translation, listing_image, dusers, siae_listing_list>>
    /\ UNCHANGED notImg

\* The loop is over: the two prints, and the migrator returns.
ImgReturn ==
    /\ ipc = "resolve" /\ ik > Len(siae_listing_list)
    /\ ipc' = "done"
    /\ UNCHANGED <<listing, listing_translation, listing_image, dusers, ik, ij,
                   siae_listing_list, error_count, siae_images, iexc>>
    /\ UNCHANGED notImg

(***************************************************************************)
(* Command.handle and the migrators as row loops                           *)
(***************************************************************************)
MaxEnabled == 2
MaxRows == 2

\* The calls of the try block of handle, in source order.
MIGRATORS ==
    <<"siae", "siae_logo", "network", "siae_network", "sector", "siae_sector",
      "siae_offer", "siae_label", "siae_client_reference_logo", "siae_image",
      "user", "user_image", "siae_user", "update_siae_contact">>
MigratorNames == {MIGRATORS[a] : a \in 1..Len(MIGRATORS)}

\* What one iteration of a migrator's row loop can come to:
\*   ok              the destination write (create / add / save) succeeded
\*   skip            the row is passed over (position != 1, kind None, an
\*                   error counter of migrate_siae_image)
\*   row_error       a statement before the write raises (map_siae_nature on
\*                   an unknown nature, next() without a 'fr' translation,
\*                   roles None, pop of a missing key)
\*   lookup_error    objects.get(...) raises DoesNotExist
\*   write_error     the destination write raises
\*   integrity_error Sector.objects.create raises IntegrityError
RowOutcomes(m) ==
    CASE m = "siae" -> {"ok", "row_error", "write_error"}
      [] m = "siae_logo" -> {"ok", "skip", "lookup_error", "write_error"}
      [] m = "network" -> {"ok", "write_error"}
      [] m = "siae_network" -> {"ok", "lookup_error", "write_error"}
      [] m = "sector" -> {"ok", "row_error", "write_error", "integrity_error"}
      [] m = "siae_sector" -> {"ok", "lookup_error", "write_error"}
      [] m = "siae_offer" -> {"ok", "write_error"}
      [] m = "siae_label" -> {"ok", "write_error"}
      [] m = "siae_client_reference_logo" -> {"ok", "write_error"}
      [] m = "siae_image" -> {"ok", "skip", "row_error", "write_error"}
      [] m = "user" -> {"ok", "skip", "row_error", "write_error"}
      [] m = "user_image" -> {"ok", "skip", "lookup_error", "write_error"}
      [] m = "siae_user" -> {"ok", "lookup_error", "write_error"}
      [] m = "update_siae_contact" -> {"ok", "write_error"}

\* Mutant: no migrator wraps its create.
NoCreateInTry(m) == FALSE

\* The migrators whose create is inside `try: ... except Exception as e: print(e)`.
CreateInTry(m) == m \in {"siae", "user"}

\* The migrators whose whole row body is inside `try: ... except: pass`.
RowInBareExcept(m) == m \in {"siae_sector", "siae_user"}

\* What the row loop does with an outcome: go on with the next row, go on
\* after printing the exception, retry the create with the suffixed slug, or
\* let the exception leave the migrator.
RowHandling(m, o) ==
    IF o \in {"ok", "skip"} THEN "continue"
    ELSE IF RowInBareExcept(m) THEN "continue"
    ELSE IF o = "write_error" /\ CreateInTry(m) THEN "print"
    ELSE IF o = "integrity_error" THEN "retry"
    ELSE "raise"

ExceptionOf(o) ==
    CASE o = "row_error" -> "KeyError"
      [] o = "lookup_error" -> "DoesNotExist"
      [] o = "write_error" -> "DatabaseError"
      [] o = "integrity_error" -> "IntegrityError"
      [] o = "fetch_error" -> "OperationalError"

\* Mutant: handle catches only the driver's errors (except pymysql.Error).
HandleCatchesDriverErrors(e) == e = "OperationalError"

\* `except Exception as e`: every exception the migrators raise derives from
\* Exception.
HandleCatches(e) == e \in {"KeyError", "DoesNotExist", "DatabaseError", "IntegrityError", "OperationalError"}

\* The first enabled call after statement a of the try block (Len + 1: none).
NextEnabled(a) ==
    IF \E b \in (a + 1)..Len(MIGRATORS) : MIGRATORS[b] \in enabled
    THEN CHOOSE b \in (a + 1)..Len(MIGRATORS) :
            /\ MIGRATORS[b] \in enabled
            /\ \A c \in (a + 1)..(b - 1) : MIGRATORS[c] \notin enabled
    ELSE Len(MIGRATORS) + 1

\* The migrators that start with a delete on the destination (all of the
\* records of their type, or the users without api_key for migrate_user).
HasDelete(m) == m \notin {"siae_logo", "user_image", "update_siae_contact"}

\* The migrators whose destination records a migrator reads: Siae.objects.get
\* (siae_logo, siae_network, siae_sector), the siae_id foreign key of the
\* created record (siae_offer, siae_label, siae_client_reference_logo),
\* networks.add / sectors.add, User.objects.get (user_image, siae_user),
\* User.objects.prefetch_related("siaes") and users.first().siaes
\* (siae_image), Siae.objects.has_user() and siae.users (update_siae_contact).
Reads(m) ==
    CASE m = "siae_logo" -> {"siae"}
      [] m = "siae_network" -> {"siae", "network"}
      [] m = "siae_sector" -> {"siae", "sector"}
      [] m \in {"siae_offer", "siae_label", "siae_client_reference_logo"} -> {"siae"}
      [] m = "siae_image" -> {"user", "siae_user"}
      [] m = "user_image" -> {"user"}
      [] m = "siae_user" -> {"siae", "user"}
      [] m = "update_siae_contact" -> {"siae", "user", "siae_user"}
      [] OTHER -> {}

\* The destination as a run finds it: for every migrator the records of its
\* type from before the run ("kept" until a delete removes them) and the
\* number of writes of this run that are committed.
InitialDest == [m \in MigratorNames |-> [old |-> "kept", new |-> 0]]
AfterDelete(d, m) == IF HasDelete(m) THEN [d EXCEPT ![m].old = "deleted"] ELSE d
AfterWrite(d, m) == [d EXCEPT ![m].new = @ + 1]

\* Mutant: the rollback also undoes the destination writes of the run.
RollbackRestoresDestination(d) == InitialDest

\* connMy.rollback() is a rollback of the source (MySQL) connection: the
\* destination, written through the ORM in autocommit, is not touched.
AfterRollback(d) == d

\* The migrator handle is running, or ran last.
Running == IF hcur \in 1..Len(MIGRATORS) THEN MIGRATORS[hcur] ELSE "none"

HandleIdle ==
    /\ enabled = {} /\ hpc = "idle" /\ conn = "none" /\ hcur = 0 /\ hexc = ""
    /\ hrollbacks = 0 /\ hcloses = 0
    /\ mpc = "none" /\ mrows = 0 /\ mrow = 0 /\ mout = "" /\ mprinted = 0
    /\ hdest = InitialDest

\* handle is entered; any choice of at most MaxEnabled calls is left enabled.
StartHandle ==
    /\ enabled \in {E \in SUBSET MigratorNames : Cardinality(E) <= MaxEnabled}
    /\ hpc = "connect" /\ conn = "none" /\ hcur = 0 /\ hexc = ""
    /\ hrollbacks = 0 /\ hcloses = 0
    /\ mpc = "none" /\ mrows = 0 /\ mrow = 0 /\ mout = "" /\ mprinted = 0
    /\ hdest = InitialDest

\* An exception e raised inside the try block: to the except clause when it
\* matches, else straight to the finally clause.
RaiseInTry(e) ==
    /\ hexc' = e
    /\ hpc' = (IF HandleCatches(e) THEN "except" ELSE "finally")

\* connMy = pymysql.connect(...), before the try block: a failure leaves handle.
HConnect ==
    /\ hpc = "connect"
    /\ \/ /\ conn' = "open" /\ hpc' = "try"
          /\ UNCHANGED hexc
       \/ /\ hpc' = "propagated" /\ hexc' = "OperationalError"
          /\ UNCHANGED conn
    /\ UNCHANGED <<enabled, hcur, hrollbacks, hcloses, mpc, mrows, mrow, mout, mprinted, hdest>>
    /\ UNCHANGED notHandle

\* The next enabled migrator is called: its delete, cur.execute and
\* cur.fetchall().
HMigratorStart ==
    /\ hpc = "try" /\ mpc \in {"none", "returned"} /\ NextEnabled(hcur) <= Len(MIGRATORS)
    /\ hcur' = NextEnabled(hcur)
    /\ hdest' = AfterDelete(hdest, MIGRATORS[NextEnabled(hcur)])
    /\ mout' = "" /\ mprinted' = 0 /\ mrow' = 1
    /\ \/ /\ \E n \in 0..MaxRows : mrows' = n
          /\ mpc' = "rows"
          /\ UNCHANGED <<hpc, hexc>>
       \/ /\ mrows' = 0 /\ mpc' = "raised"
          /\ RaiseInTry(ExceptionOf("fetch_error"))
    /\ UNCHANGED <<enabled, conn, hrollbacks, hcloses>>
    /\ UNCHANGED notHandle

\* One iteration of the migrator's row loop.
HMigratorRow ==
    /\ hpc = "try" /\ mpc = "rows" /\ mrow <= mrows
    /\ \E o \in RowOutcomes(Running) :
          /\ mout' = o
          /\ hdest' = (IF o = "ok" THEN AfterWrite(hdest, Running) ELSE hdest)
          /\ LET h == RowHandling(Running, o) IN
             CASE h = "continue" ->
                    /\ mrow' = mrow + 1
                    /\ UNCHANGED <<mpc, mprinted, hpc, hexc>>
               [] h = "print" ->
                    /\ mrow' = mrow + 1 /\ mprinted' = mprinted + 1
                    /\ UNCHANGED <<mpc, hpc, hexc>>
               [] h = "retry" ->
                    /\ mpc' = "retry"
                    /\ UNCHANGED <<mrow, mprinted, hpc, hexc>>
               [] h = "raise" ->
                    /\ mpc' = "raised" /\ RaiseInTry(ExceptionOf(o))
                    /\ UNCHANGED <<mrow, mprinted>>
    /\ UNCHANGED <<enabled, conn, hcur, hrollbacks, hcloses, mrows>>
    /\ UNCHANGED notHandle

\* migrate_sector's except IntegrityError: the create is repeated with the
\* slug suffixed by the group id, outside any try.
HSectorRetry ==
    /\ hpc = "try" /\ mpc = "retry"
    /\ \/ /\ mout' = "ok" /\ mpc' = "rows" /\ mrow' = mrow + 1
          /\ hdest' = AfterWrite(hdest, Running)
          /\ UNCHANGED <<hpc, hexc>>
       \/ /\ mout' = "write_error" /\ mpc' = "raised"
          /\ RaiseInTry(ExceptionOf("integrity_error"))
          /\ UNCHANGED <<mrow, hdest>>
    /\ UNCHANGED <<enabled, conn, hcur, hrollbacks, hcloses, mrows, mprinted>>
    /\ UNCHANGED notHandle

\* The row loop is over: the migrator prints its count and returns.
HMigratorReturn ==
    /\ hpc = "try" /\ mpc = "rows" /\ mrow > mrows
    /\ mpc' = "returned"
    /\ UNCHANGED <<enabled, hpc, conn, hcur, hexc, hrollbacks, hcloses, mrows, mrow, mout, mprinted, hdest>>
    /\ UNCHANGED notHandle

\* The try block ends without an exception.
HTryEnd ==
    /\ hpc = "try" /\ mpc \in {"none", "returned"} /\ NextEnabled(hcur) > Len(MIGRATORS)
    /\ hpc' = "finally"
    /\ UNCHANGED <<enabled, conn, hcur, hexc, hrollbacks, hcloses, mpc, mrows, mrow, mout, mprinted, hdest>>
    /\ UNCHANGED notHandle

\* except Exception as e: print(e); connMy.rollback()
HExcept ==
    /\ hpc = "except"
    /\ hrollbacks' = hrollbacks + 1
    /\ hdest' = AfterRollback(hdest)
    /\ hpc' = "finally"
    /\ UNCHANGED <<enabled, conn, hcur, hexc, hcloses, mpc, mrows, mrow, mout, mprinted>>
    /\ UNCHANGED notHandle

\* finally: connMy.close(); handle returns, or the exception that no clause
\* caught goes on to the caller.
HFinally ==
    /\ hpc = "finally"
    /\ conn' = "closed" /\ hcloses' = hcloses + 1
    /\ hpc' = (IF hexc = "" \/ HandleCatches(hexc) THEN "returned" ELSE "propagated")
    /\ UNCHANGED <<enabled, hcur, hexc, hrollbacks, mpc, mrows, mrow, mout, mprinted, hdest>>
    /\ UNCHANGED notHandle

(***************************************************************************)
(* One migrator run twice on an unchanged source: what it deletes and      *)
(* what it writes                                                          *)
(***************************************************************************)
MaxKeys == 2
MaxSource == 2

\* The migrators that read a source table (update_siae_contact reads none).
ReplaceMigrators == MigratorNames \ {"update_siae_contact"}

\* migrate_siae_logo and migrate_user_image set image_name on a record that
\* exists already: Siae.objects.get(...), siae.image_name = ..., siae.save().
WritesField(m) == m \in {"siae_logo", "user_image"}

\* The migrators that write through a many-to-many add(), which leaves a
\* link that exists already as it is.
WritesLink(m) == m \in {"siae_network", "siae_sector", "siae_user"}

\* Mutant: no migrator deletes anything before its loop.
DeletesNothing(m, r) == FALSE

\* The delete a migrator starts with, as a filter on the destination records
\* of the type it writes: <Model>.objects.all().delete() for most,
\* User.objects.filter(api_key__isnull=True).delete() in migrate_user, and
\* no delete at all in the two image-name migrators.
Deletes(m, r) ==
    IF WritesField(m) THEN FALSE
    ELSE IF m = "user" THEN ~r.api
    ELSE TRUE

Keys == 1..MaxKeys

\* A destination record: its unique key, where its migrated value comes from
\* ("old": from before the run, "src": written from the source by a run) and
\* whether it is a User with an api_key.
OldRecords(m) ==
    [key : Keys, val : {"old"}, api : IF m \in {"user", "user_image"} THEN BOOLEAN ELSE {FALSE}]
UniqueKeys(D) == \A r, q \in D : r.key = q.key => r = q
Destinations(m) == {D \in SUBSET OldRecords(m) : UniqueKeys(D)}

\* A source row: the key of the record it is about and what the loop body
\* comes to for it ("skip" only in the migrators that pass rows over).
SourceRows(m) ==
    [key : Keys, kind : {"ok", "bad"} \cup (IF "skip" \in RowOutcomes(m) THEN {"skip"} ELSE {})]

HasKey(D, k) == \E r \in D : r.key = k

\* The outcome of the loop body for one row on the destination D; the
\* destination rejects a second record with a key that is taken.
RowOutcome(m, row, D) ==
    IF row.kind = "skip" THEN "skip"
    ELSE IF row.kind = "bad"
         THEN (IF "lookup_error" \in RowOutcomes(m) THEN "lookup_error" ELSE "write_error")
    ELSE IF WritesField(m) THEN (IF HasKey(D, row.key) THEN "ok" ELSE "lookup_error")
    ELSE IF WritesLink(m) THEN "ok"
    ELSE IF HasKey(D, row.key) THEN "write_error"
    ELSE "ok"

\* The destination after the write of one row succeeded.
Written(m, row, D) ==
    IF WritesField(m)
    THEN {IF r.key = row.key THEN [r EXCEPT !.val = "src"] ELSE r : r \in D}
    ELSE IF HasKey(D, row.key) THEN D
    ELSE D \cup {[key |-> row.key, val |-> "src", api |-> FALSE]}

ReplaceIdle ==
    /\ rmig = "none" /\ rsrc = <<>> /\ rdest0 = {} /\ rdest = {} /\ rafter1 = {}
    /\ rrun = 0 /\ rpc = "idle" /\ ridx = 0

StartReplace ==
    /\ rmig \in ReplaceMigrators
    /\ rsrc \in SeqUpTo(SourceRows(rmig), MaxSource)
    /\ rdest0 \in Destinations(rmig)
    /\ rdest = rdest0 /\ rafter1 = {}
    /\ rrun = 1 /\ rpc = "start" /\ ridx = 0

\* The head of a migrator: the delete, then cur.execute and cur.fetchall().
RDeleteAndFetch ==
    /\ rpc = "start"
    /\ rdest' = {r \in rdest : ~Deletes(rmig, r)}
    /\ ridx' = 1 /\ rpc' = "rows"
    /\ UNCHANGED <<rmig, rsrc, rdest0, rafter1, rrun>>
    /\ UNCHANGED notReplace

\* One iteration of the row loop.
RRow ==
    /\ rpc = "rows" /\ ridx <= Len(rsrc)
    /\ LET row == rsrc[ridx]
           o == RowOutcome(rmig, row, rdest)
           h == RowHandling(rmig, o)
       IN  /\ rdest' = (IF o = "ok" THEN Written(rmig, row, rdest) ELSE rdest)
           /\ IF h = "raise"
              THEN rpc' = "raised" /\ UNCHANGED ridx
              ELSE ridx' = ridx + 1 /\ UNCHANGED rpc
    /\ UNCHANGED <<rmig, rsrc, rdest0, rafter1, rrun>>
    /\ UNCHANGED notReplace

\* The loop is over: the migrator prints its count and returns.
RReturn ==
    /\ rpc = "rows" /\ ridx > Len(rsrc)
    /\ rpc' = "returned"
    /\ UNCHANGED <<rmig, rsrc, rdest0, rdest, rafter1, rrun, ridx>>
    /\ UNCHANGED notReplace

\* The command is run a second time with the same migrator enabled, on the
\* destination the first run left and the same source.
RRunAgain ==
    /\ rpc \in {"returned", "raised"} /\ rrun = 1
    /\ rafter1' = rdest /\ rrun' = 2 /\ rpc' = "start" /\ ridx' = 0
    /\ UNCHANGED <<rmig, rsrc, rdest0, rdest>>
    /\ UNCHANGED notReplace

(***************************************************************************)
(* Command.migrate_sector                                                  *)
(***************************************************************************)
MaxSectorId == 4

SectorIds == 1..MaxSectorId
Slugs == {"autre", "btp"}

\* listing_category: id is the primary key and the rows come in id order;
\* parent_id is None (0 here; both are falsy) or the id of another category,
\* with or without a row of its own.
CategoryRows == {r \in [id : SectorIds, parent_id : 0..MaxSectorId] : r.parent_id # r.id}
CategoryTables ==
    {t \in SeqUpTo(CategoryRows, MaxSectorId) :
        \A a, b \in 1..Len(t) : a < b => t[a].id < t[b].id}

\* listing_category_translation, as the slug of the first 'fr' row of each
\* translatable_id ("" when the id has no 'fr' row).
TranslationMaps == [SectorIds -> Slugs \cup {""}]

\* The index of the group with this id in sector_group_list, 0 for None.
GroupIndex(list, id) ==
    IF \E a \in 1..Len(list) : list[a].id = id
    THEN CHOOSE a \in 1..Len(list) :
            list[a].id = id /\ \A b \in 1..(a - 1) : list[b].id # id
    ELSE 0

\* A first loop that would drop the child of a group not seen yet instead of
\* appending the group.
AddToHierarchyWithoutPlaceholder(list, row) ==
    IF row.parent_id = 0
    THEN IF GroupIndex(list, row.id) = 0
         THEN Append(list, [id |-> row.id, children |-> <<>>])
         ELSE list
    ELSE IF GroupIndex(list, row.parent_id) = 0
         THEN list
         ELSE [list EXCEPT ![GroupIndex(list, row.parent_id)].children = Append(@, row.id)]

\* The body of the first loop for one row.
AddToHierarchy(list, row) ==
    IF row.parent_id = 0
    THEN IF GroupIndex(list, row.id) = 0
         THEN Append(list, [id |-> row.id, children |-> <<>>])
         ELSE list
    ELSE LET withGroup == IF GroupIndex(list, row.parent_id) = 0
                          THEN Append(list, [id |-> row.parent_id, children |-> <<>>])
                          ELSE list
             g == GroupIndex(withGroup, row.parent_id)
         IN  [withGroup EXCEPT ![g].children = Append(@, row.id)]

\* A slug: the translation's slug, alone or followed by "-<group id>".
Slug(base, suffix) == [base |-> base, suffix |-> suffix]

\* slug_fix = f"{elem_data['slug']}-{sector_group_dict['id']}"
SlugFix(base, group, child) == Slug(base, group)

\* Sector.objects.create raises IntegrityError when the slug is taken
\* ("sometimes the slugs are duplicated").
SlugTaken(S, slug) == \E s \in S : s.slug = slug

SectorIdle ==
    /\ category = <<>> /\ translation = <<>> /\ spc = "idle" /\ sk = 0 /\ sj = 0
    /\ sector_group_list = <<>> /\ sector_groups = {} /\ sectors = {} /\ sexc = ""

StartSector ==
    /\ category \in CategoryTables /\ translation \in TranslationMaps
    /\ spc = "start" /\ sk = 0 /\ sj = 0
    /\ sector_group_list = <<>> /\ sector_groups = {} /\ sectors = {} /\ sexc = ""

\* The two deletes, then the fetch of listing_category.
SecDeleteAndFetch ==
    /\ spc = "start"
    /\ sectors' = {} /\ sector_groups' = {}
    /\ spc' = "hierarchy" /\ sk' = 1
    /\ UNCHANGED <<category, translation, sj, sector_group_list, sexc>>
    /\ UNCHANGED notSector

\* One iteration of the first loop.
SecHierarchyRow ==
    /\ spc = "hierarchy" /\ sk <= Len(category)
    /\ sector_group_list' = AddToHierarchy(sector_group_list, category[sk])
    /\ sk' = sk + 1
    /\ UNCHANGED <<category, translation, spc, sj, sector_groups, sectors, sexc>>
    /\ UNCHANGED notSector

\* The first loop is over: the fetch of listing_category_translation.
SecFetchTranslations ==
    /\ spc = "hierarchy" /\ sk > Len(category)
    /\ spc' = "create" /\ sk' = 1 /\ sj' = 0
    /\ UNCHANGED <<category, translation, sector_group_list, sector_groups, sectors, sexc>>
    /\ UNCHANGED notSector

\* The head of the second loop for one group: next(...) raises StopIteration
\* when the group id has no 'fr' translation, else the SectorGroup is created.
SecCreateGroup ==
    /\ spc = "create" /\ sk <= Len(sector_group_list) /\ sj = 0
    /\ LET g == sector_group_list[sk] IN
       IF translation[g.id] = ""
       THEN /\ spc' = "raised" /\ sexc' = "StopIteration"
            /\ UNCHANGED <<sj, sector_groups>>
       ELSE /\ sector_groups' = sector_groups \cup {[id |-> g.id, slug |-> translation[g.id]]}
            /\ sj' = 1
            /\ UNCHANGED <<spc, sexc>>
    /\ UNCHANGED <<category, translation, sk, sector_group_list, sectors>>
    /\ UNCHANGED notSector

\* The inner loop for one child: the create, and on IntegrityError the one
\* retry with the suffixed slug, which nothing guards.
SecCreateSector ==
    /\ spc = "create" /\ sk <= Len(sector_group_list)
    /\ sj >= 1 /\ sj <= Len(sector_group_list[sk].children)
    /\ LET g == sector_group_list[sk]
           sector_id == g.children[sj]
           slug == Slug(translation[sector_id], 0)
           slug_fix == SlugFix(translation[sector_id], g.id, sector_id)
           created(sl) == sectors \cup {[id |-> sector_id, slug |-> sl, group |-> g.id]}
       IN  IF translation[sector_id] = ""
           THEN /\ spc' = "raised" /\ sexc' = "StopIteration"
                /\ UNCHANGED <<sj, sectors>>
           ELSE IF ~SlugTaken(sectors, slug)
           THEN /\ sectors' = created(slug) /\ sj' = sj + 1
                /\ UNCHANGED <<spc, sexc>>
           ELSE IF ~SlugTaken(sectors, slug_fix)
           THEN /\ sectors' = created(slug_fix) /\ sj' = sj + 1
                /\ UNCHANGED <<spc, sexc>>
           ELSE /\ spc' = "raised" /\ sexc' = "IntegrityError"
                /\ UNCHANGED <<sj, sectors>>
    /\ UNCHANGED <<category, translation, sk, sector_group_list, sector_groups>>
    /\ UNCHANGED notSector

\* The children of the group are done: the next group.
SecNextGroup ==
    /\ spc = "create" /\ sk <= Len(sector_group_list)
    /\ sj > Len(sector_group_list[sk].children)
    /\ sk' = sk + 1 /\ sj' = 0
    /\ UNCHANGED <<category, translation, spc, sector_group_list, sector_groups, sectors, sexc>>
    /\ UNCHANGED notSector

\* The second loop is over: the two prints, and the migrator returns.
SecReturn ==
    /\ spc = "create" /\ sk > Len(sector_group_list)
    /\ spc' = "done"
    /\ UNCHANGED <<category, translation, sk, sj, sector_group_list, sector_groups, sectors, sexc>>
    /\ UNCHANGED notSector

(***************************************************************************)
(* Signup and login, as the browser tests of www/auth drive them.  The     *)
(* steps of the driver and the profiles are those of tests.py; the views   *)
(* that answer (SignupOutcome, LoginOutcome and what they use) are not in  *)
(* the migrated files and are written from what the tests expect of them.  *)
(***************************************************************************)
MaxEmailLen == 2
MaxAuthUsers == 1

KIND_SIAE == "SIAE"
KIND_BUYER == "BUYER"
KIND_PARTNER == "PARTNER"
AuthKinds == {KIND_SIAE, KIND_BUYER, KIND_PARTNER}

DEFAULT_PASSWORD == "DEFAULT_PASSWORD"

\* A text is a sequence of characters; Lower is str.lower() on it.
AuthChars == {"a", "A", "b", "B"}
LowerChar(c) == CASE c = "A" -> "a" [] c = "B" -> "b" [] OTHER -> c
Lower(txt) == [a \in 1..Len(txt) |-> LowerChar(txt[a])]
Emails == UNION {[1..n -> AuthChars] : n \in 1..MaxEmailLen}
LowerEmails == {e \in Emails : Lower(e) = e}

\* The inputs the signup tests fill, per profile (SIAE, BUYER, PARTNER).
SIAE == {"first_name", "last_name", "phone", "email", "password1", "password2"}
BUYER == SIAE \cup {"company_name", "position"}
PARTNER == SIAE \cup {"company_name"}

\* Mutant: the SIAE profile has no last_name.
ProfileWithoutLastName(kind) ==
    CASE kind = KIND_SIAE -> SIAE \ {"last_name"}
      [] kind = KIND_BUYER -> BUYER
      [] kind = KIND_PARTNER -> PARTNER

Profile(kind) ==
    CASE kind = KIND_SIAE -> SIAE
      [] kind = KIND_BUYER -> BUYER
      [] kind = KIND_PARTNER -> PARTNER

\* Mutant: the form requires the same fields of every kind.
RequiredFieldsOfAnyKind(kind) == SIAE \ {"phone", "last_name"}

\* The fields the signup form requires for a kind: phone is not required
\* (comments of the profiles), partner_kind is a select the PARTNER profile
\* leaves to the test.
RequiredFields(kind) ==
    CASE kind = KIND_SIAE -> SIAE \ {"phone"}
      [] kind = KIND_BUYER -> BUYER \ {"phone"}
      [] kind = KIND_PARTNER -> (PARTNER \ {"phone"}) \cup {"partner_kind"}

\* The email the signup profiles carry; no user has it before the test.
SignupEmail == <<"b", "a">>

\* A user: UserFactory(email=.., kind=.., password=..); stored emails are
\* lower case and unique; password "" is the emptied password field.
AuthUser(email, kind, password) == [email |-> email, kind |-> kind, password |-> password]
AuthUsers == [email : LowerEmails, kind : {KIND_SIAE, KIND_BUYER}, password : {DEFAULT_PASSWORD, ""}]
AuthUserSets ==
    {U \in SUBSET AuthUsers :
        /\ Cardinality(U) <= MaxAuthUsers
        /\ \A u, v \in U : u.email = v.email => u = v}

Anonymous == <<>>

\* Where a user of a kind lands after signup or login.
RedirectOf(kind) ==
    CASE kind = KIND_SIAE -> "dashboard:home"
      [] kind = KIND_BUYER -> "siae:search_results"
      [] OTHER -> "wagtail:home"

\* The answer to the submitted signup form: nothing is submitted while a
\* required field is empty or the RGPD box is not checked; else the user is
\* created and the browser goes to ?next= when given, else by kind.
SignupOutcome(kind, filled, rgpd, next) ==
    IF RequiredFields(kind) \subseteq filled /\ rgpd
    THEN [ok |-> TRUE, page |-> IF next THEN "next" ELSE RedirectOf(kind)]
    ELSE [ok |-> FALSE, page |-> "auth:signup"]

\* Mutant: the login form looks the typed email up as typed.
LoginOutcomeCaseSensitive(U, email, password) ==
    IF ~\E u \in U : u.email = email
    THEN [ok |-> FALSE, page |-> "auth:login", message |-> "invalid credentials"]
    ELSE LET u == CHOOSE v \in U : v.email = email IN
         IF u.password = ""
         THEN [ok |-> FALSE, page |-> "auth:login", message |-> "password not yet defined"]
         ELSE IF u.password # password
         THEN [ok |-> FALSE, page |-> "auth:login", message |-> "invalid credentials"]
         ELSE [ok |-> TRUE, page |-> RedirectOf(u.kind), message |-> ""]

\* Mutant: an empty stored password is a wrong password like any other.
LoginOutcomeWithoutPasswordHint(U, email, password) ==
    IF ~\E u \in U : u.email = Lower(email)
    THEN [ok |-> FALSE, page |-> "auth:login", message |-> "invalid credentials"]
    ELSE LET u == CHOOSE v \in U : v.email = Lower(email) IN
         IF u.password # password
         THEN [ok |-> FALSE, page |-> "auth:login", message |-> "invalid credentials"]
         ELSE [ok |-> TRUE, page |-> RedirectOf(u.kind), message |-> ""]

\* The answer to the submitted login form: the user is looked up by the
\* lower-cased email.
LoginOutcome(U, email, password) ==
    IF ~\E u \in U : u.email = Lower(email)
    THEN [ok |-> FALSE, page |-> "auth:login", message |-> "invalid credentials"]
    ELSE LET u == CHOOSE v \in U : v.email = Lower(email) IN
         IF u.password = ""
         THEN [ok |-> FALSE, page |-> "auth:login", message |-> "password not yet defined"]
         ELSE IF u.password # password
         THEN [ok |-> FALSE, page |-> "auth:login", message |-> "invalid credentials"]
         ELSE [ok |-> TRUE, page |-> RedirectOf(u.kind), message |-> ""]

NoCredentials == [email |-> <<>>, password |-> ""]

AuthIdle ==
    /\ apc = "idle" /\ apage = "none" /\ anext = FALSE /\ akind = "" /\ afilled = {}
    /\ argpd = FALSE /\ ausers = {} /\ ausers0 = {} /\ asession = Anonymous
    /\ amessages = {} /\ atyped = NoCredentials

\* A test starts: the users its setup made, a browser with no session.
StartAuth ==
    /\ apc = "start" /\ apage = "none" /\ anext = FALSE /\ akind = "" /\ afilled = {}
    /\ argpd = FALSE
    /\ ausers \in {U \in AuthUserSets : \A u \in U : u.email # SignupEmail}
    /\ ausers0 = ausers
    /\ asession = Anonymous /\ amessages = {} /\ atyped = NoCredentials

\* driver.get(signup_url), with or without ?next=.
AOpenSignup ==
    /\ apc = "start"
    /\ apage' = "auth:signup" /\ anext' \in BOOLEAN /\ apc' = "signup open"
    /\ UNCHANGED <<akind, afilled, argpd, ausers, ausers0, asession, amessages, atyped>>
    /\ UNCHANGED notAuth

\* _complete_form: the kind is clicked, the inputs of a profile (or of a
\* profile with keys deleted) are filled, the RGPD box is clicked.
ACompleteForm ==
    /\ apc = "signup open"
    /\ \E kind \in AuthKinds :
          /\ akind' = kind
          /\ afilled' \in SUBSET (Profile(kind) \cup {"partner_kind"})
    /\ argpd' \in BOOLEAN
    /\ apc' = "signup filled"
    /\ UNCHANGED <<apage, anext, ausers, ausers0, asession, amessages, atyped>>
    /\ UNCHANGED notAuth

\* The submit button is clicked on the signup form.
ASubmitSignup ==
    /\ apc = "signup filled"
    /\ LET out == SignupOutcome(akind, afilled, argpd, anext) IN
       /\ apage' = out.page
       /\ IF out.ok
          THEN /\ ausers' = ausers \cup {AuthUser(SignupEmail, akind, DEFAULT_PASSWORD)}
               /\ asession' = SignupEmail
               /\ amessages' = {"Inscription validée"}
          ELSE UNCHANGED <<ausers, asession, amessages>>
    /\ apc' = "submitted"
    /\ UNCHANGED <<anext, akind, afilled, argpd, ausers0, atyped>>
    /\ UNCHANGED notAuth

\* driver.get(login_url).
AOpenLogin ==
    /\ apc = "start"
    /\ apage' = "auth:login" /\ apc' = "login open"
    /\ UNCHANGED <<anext, akind, afilled, argpd, ausers, ausers0, asession, amessages, atyped>>
    /\ UNCHANGED notAuth

\* send_keys on id_username and id_password.
ATypeCredentials ==
    /\ apc = "login open"
    /\ \E email \in Emails, password \in {DEFAULT_PASSWORD, "password"} :
          atyped' = [email |-> email, password |-> password]
    /\ apc' = "login filled"
    /\ UNCHANGED <<apage, anext, akind, afilled, argpd, ausers, ausers0, asession, amessages>>
    /\ UNCHANGED notAuth

\* The submit button is clicked on the login form.
ASubmitLogin ==
    /\ apc = "login filled"
    /\ LET out == LoginOutcome(ausers, atyped.email, atyped.password) IN
       /\ apage' = out.page
       /\ asession' = (IF out.ok THEN Lower(atyped.email) ELSE asession)
       /\ amessages' = (IF out.ok THEN amessages ELSE {out.message})
    /\ apc' = "submitted"
    /\ UNCHANGED <<anext, akind, afilled, argpd, ausers, ausers0, atyped>>
    /\ UNCHANGED notAuth

(***************************************************************************)
(* import_departements: Command.handle                                     *)
(***************************************************************************)
MaxItems == 2
MaxPerimeters == 1

\* Keys of DEPARTMENTS and REGIONS (lemarche.utils.constants): the codes the
\* two assertions let through.
DEPARTMENTS == {"01", "2A"}
REGIONS == {"84", "94"}

\* An item of departements.json: item["nom"], item["code"] and
\* item.get("codeRegion"), "" standing for None (key absent).
NameOf(code) ==
    CASE code = "01" -> "Ain" [] code = "2A" -> "Corse-du-Sud" [] OTHER -> "Inconnu"
JsonItems ==
    {[nom |-> NameOf(c), code |-> c, codeRegion |-> r] :
        c \in DEPARTMENTS \cup {"99"}, r \in REGIONS \cup {""}}
JsonFiles == SeqUpTo(JsonItems, MaxItems)

MISSING_DEPARTMENTS ==
    <<[nom |-> "Saint-Pierre-et-Miquelon", code |-> "975", codeRegion |-> "97"],
      [nom |-> "Saint-Barthélemy", code |-> "977", codeRegion |-> "97"],
      [nom |-> "Saint-Martin", code |-> "978", codeRegion |-> "97"],
      [nom |-> "Terres australes et antarctiques françaises", code |-> "984", codeRegion |-> "97"],
      [nom |-> "Wallis-et-Futuna", code |-> "986", codeRegion |-> "97"],
      [nom |-> "Polynésie française", code |-> "987", codeRegion |-> "97"],
      [nom |-> "Nouvelle-Calédonie", code |-> "988", codeRegion |-> "97"],
      [nom |-> "Île de Clipperton", code |-> "989", codeRegion |-> "97"]>>

\* A Perimeter of kind KIND_DEPARTMENT.
Department(item) == [name |-> item.nom, insee_code |-> item.code, region_code |-> item.codeRegion]
DepartmentSets ==
    {P \in SUBSET ({Department(it) : it \in JsonItems}
                     \cup {Department(MISSING_DEPARTMENTS[a]) : a \in 1..2}) :
        Cardinality(P) <= MaxPerimeters}

\* Mutant: the write is made whatever dry_run says.
ImportIgnoresDryRun(P, item, dry) == P \cup {Department(item)}

\* if not dry_run: Perimeter.objects.get_or_create(kind, name, insee_code,
\* region_code): the record is created unless one with these values exists.
Import(P, item, dry) == IF dry THEN P ELSE P \cup {Department(item)}

\* The second loop, over MISSING_DEPARTMENTS, from its a-th entry on.
RECURSIVE ImportMissing(_, _, _)
ImportMissing(P, a, dry) ==
    IF a > Len(MISSING_DEPARTMENTS) THEN P
    ELSE ImportMissing(Import(P, MISSING_DEPARTMENTS[a], dry), a + 1, dry)

DeptIdle ==
    /\ dry_run = FALSE /\ json_data = <<>> /\ perimeters = {} /\ perimeters0 = {}
    /\ dpc = "idle" /\ di = 0 /\ dexc = ""

\* handle is called: the option, the file and the table as they are.
StartDept ==
    /\ dry_run \in BOOLEAN /\ json_data \in JsonFiles
    /\ perimeters \in DepartmentSets /\ perimeters0 = perimeters
    /\ dpc = "start" /\ di = 0 /\ dexc = ""

\* The "Before" count, set_logger, open and json.load.
DeptLoad ==
    /\ dpc = "start"
    /\ dpc' = "items" /\ di' = 1
    /\ UNCHANGED <<dry_run, json_data, perimeters, perimeters0, dexc>>
    /\ UNCHANGED notDept

\* One iteration of the loop over the file: the two assertions, the debug
\* lines and the guarded get_or_create.
DeptItem ==
    /\ dpc = "items" /\ di <= Len(json_data)
    /\ LET item == json_data[di] IN
       IF item.code \notin DEPARTMENTS \/ item.codeRegion \notin REGIONS
       THEN /\ dpc' = "raised" /\ dexc' = "AssertionError"
            /\ UNCHANGED <<di, perimeters>>
       ELSE /\ perimeters' = Import(perimeters, item, dry_run)
            /\ di' = di + 1
            /\ UNCHANGED <<dpc, dexc>>
    /\ UNCHANGED <<dry_run, json_data, perimeters0>>
    /\ UNCHANGED notDept

\* The loop over MISSING_DEPARTMENTS, then "Done." and the "After" count.
DeptMissingAndReturn ==
    /\ dpc = "items" /\ di > Len(json_data)
    /\ perimeters' = ImportMissing(perimeters, 1, dry_run)
    /\ dpc' = "done"
    /\ UNCHANGED <<dry_run, json_data, perimeters0, di, dexc>>
    /\ UNCHANGED notDept

(***************************************************************************)
(* Command.migrate_user followed by Command.migrate_siae_user              *)
(***************************************************************************)
MaxSourceUsers == 2
MaxLinks == 2
MaxKept == 1
MaxLinkSiaes == 1

SourceUserIds == 1..MaxSourceUsers
LinkSiaeIds == 1..MaxLinkSiaes

\* user.person_type: NULL or an integer, inside and outside the mapping table.
PersonTypes == {PyNone} \cup {PyInt(n) : n \in 0..7}

\* The source table user: id is the auto-increment key, so the k-th row
\* fetched has id k here.
UserSourceTables ==
    {[k \in 1..Len(t) |-> [id |-> k, person_type |-> t[k]]] :
        t \in SeqUpTo(PersonTypes, MaxSourceUsers)}

\* The source table directory_user: user_id may name a user without a row,
\* directory_id a Siae the destination does not hold.
DirectoryUserTables ==
    SeqUpTo([directory_id : LinkSiaeIds, user_id : SourceUserIds], MaxLinks)

\* A destination User: its c4_id, its kind and whether it holds an api_key.
DestUser(c4, kind, key) == [c4_id |-> c4, kind |-> kind, api_key |-> key]
\* The users an earlier run left, some of them given an api_key since.
KeptUserSets ==
    {S \in SUBSET {DestUser(c, "KIND_SIAE", b) : c \in SourceUserIds, b \in BOOLEAN} :
        Cardinality(S) <= MaxKept}

\* A row of Siae.users.through.
Link(u, s) == [user |-> u, siae |-> s]

\* User.objects.filter(api_key__isnull=True).delete(): the users without
\* api_key go, and their rows of the through table with them.
DeleteUsersWithoutKey(U) == {u \in U : u.api_key}

\* User.objects.get(c4_id=...) then user.siaes.add(directory_id): get raises
\* DoesNotExist or MultipleObjectsReturned unless one user matches, and the
\* insert of a link to a Siae that does not exist raises IntegrityError.
Matching(U, c4) == {u \in U : u.c4_id = c4}
LinkAttempt(U, S, row) ==
    IF Matching(U, row.user_id) = {} THEN Raised("DoesNotExist")
    ELSE IF Cardinality(Matching(U, row.user_id)) > 1 THEN Raised("MultipleObjectsReturned")
    ELSE IF row.directory_id \notin S THEN Raised("IntegrityError")
    ELSE [kind |-> "ok", tags |-> <<>>, exc |-> ""]

\* Mutant: the loop of migrate_siae_user catches the missing user only
\* (except User.DoesNotExist).
SiaeUserCatchesDoesNotExist(e) == e = "DoesNotExist"

\* `except:  # noqa` then `pass`: a bare except catches every exception.
SiaeUserCatches(e) == TRUE

LinkIdle ==
    /\ user_table = <<>> /\ directory_user = <<>> /\ dest_users = {} /\ dest_siaes = {}
    /\ siae_users = {} /\ upc = "idle" /\ uk = 0 /\ uexc = ""

\* migrate_user(cur) is entered: the source tables, and the destination as an
\* earlier run left it, every user it kept linked to every Siae it holds.
StartLink ==
    /\ user_table \in UserSourceTables
    /\ directory_user \in DirectoryUserTables
    /\ dest_users \in KeptUserSets
    /\ dest_siaes \in SUBSET LinkSiaeIds
    /\ siae_users = {Link(u, s) : u \in dest_users, s \in dest_siaes}
    /\ upc = "user_delete" /\ uk = 0 /\ uexc = ""

\* migrate_user: the delete, then SELECT * FROM user.
UserDeleteAndFetch ==
    /\ upc = "user_delete"
    /\ dest_users' = DeleteUsersWithoutKey(dest_users)
    /\ siae_users' = {l \in siae_users : l.user \in DeleteUsersWithoutKey(dest_users)}
    /\ upc' = "user_rows" /\ uk' = 1
    /\ UNCHANGED <<user_table, directory_user, dest_siaes, uexc>>
    /\ UNCHANGED notLink

\* migrate_user: one row.  elem["kind"] = map_user_kind(elem["person_type"]);
\* `if elem["kind"]:` the create, inside try / except Exception (printed): it
\* succeeds or fails.
UserRow ==
    /\ upc = "user_rows" /\ uk <= Len(user_table)
    /\ LET row == user_table[uk]
           kind == map_user_kind(row.person_type)
       IN IF kind.kind = "raise"
          THEN /\ upc' = "raised" /\ uexc' = kind.exc
               /\ UNCHANGED <<uk, dest_users>>
          ELSE /\ uk' = uk + 1 /\ UNCHANGED <<upc, uexc>>
               /\ IF kind.kind = "enum"
                  THEN \/ dest_users' = dest_users \cup {DestUser(row.id, kind.tags[1], FALSE)}
                       \/ UNCHANGED dest_users
                  ELSE UNCHANGED dest_users
    /\ UNCHANGED <<user_table, directory_user, dest_siaes, siae_users>>
    /\ UNCHANGED notLink

\* migrate_user returns; migrate_siae_user: the delete of the through table,
\* then SELECT * FROM directory_user.
SiaeUserDeleteAndFetch ==
    /\ upc = "user_rows" /\ uk > Len(user_table)
    /\ siae_users' = {}
    /\ upc' = "link_rows" /\ uk' = 1
    /\ UNCHANGED <<user_table, directory_user, dest_users, dest_siaes, uexc>>
    /\ UNCHANGED notLink

\* migrate_siae_user: one row.
SiaeUserRow ==
    /\ upc = "link_rows" /\ uk <= Len(directory_user)
    /\ LET row == directory_user[uk]
           r == LinkAttempt(dest_users, dest_siaes, row)
       IN IF r.kind = "ok"
          THEN /\ siae_users' =
                     siae_users \cup
                        {Link(CHOOSE u \in dest_users : u.c4_id = row.user_id, row.directory_id)}
               /\ uk' = uk + 1 /\ UNCHANGED <<upc, uexc>>
          ELSE IF SiaeUserCatches(r.exc)
          THEN /\ uk' = uk + 1 /\ UNCHANGED <<upc, uexc, siae_users>>
          ELSE /\ upc' = "raised" /\ uexc' = r.exc
               /\ UNCHANGED <<uk, siae_users>>
    /\ UNCHANGED <<user_table, directory_user, dest_users, dest_siaes>>
    /\ UNCHANGED notLink

\* migrate_siae_user returns.
SiaeUserReturn ==
    /\ upc = "link_rows" /\ uk > Len(directory_user)
    /\ upc' = "done"
    /\ UNCHANGED <<user_table, directory_user, dest_users, dest_siaes, siae_users, uk, uexc>>
    /\ UNCHANGED notLink

(***************************************************************************)
(* Specifications                                                          *)
(***************************************************************************)
InitPure ==
    StartPure /\ GeoIdle /\ ImgIdle /\ HandleIdle /\ ReplaceIdle /\ SectorIdle /\ AuthIdle /\ DeptIdle
        /\ LinkIdle
NextPure ==
    \/ CallIntegerToBoolean \/ CallMapSiaePrestaType
    \/ CallMapSiaeNature \/ CallMapGeoRange \/ CallMapUserKind
SpecPure == InitPure /\ [][NextPure]_vars

InitGeo ==
    StartGeo /\ PureIdle /\ ImgIdle /\ HandleIdle /\ ReplaceIdle /\ SectorIdle /\ AuthIdle /\ DeptIdle
        /\ LinkIdle
NextGeo == HttpGet \/ HandleResponse \/ ProcessGeocodingData
SpecGeo == InitGeo /\ [][NextGeo]_vars
\* A call runs to its end: the program always takes its next step.
FairSpecGeo == SpecGeo /\ WF_vars(NextGeo)

InitImage ==
    StartImg /\ PureIdle /\ GeoIdle /\ HandleIdle /\ ReplaceIdle /\ SectorIdle /\ AuthIdle /\ DeptIdle
        /\ LinkIdle
NextImage ==
    \/ ImgDeleteAll \/ ImgListingRow \/ ImgFetchTranslations \/ ImgTranslationRow
    \/ ImgFetchImages \/ ImgImageRow \/ ImgStartResolve
    \/ ImgListingWithoutImage \/ ImgResolveImage \/ ImgReturn
SpecImage == InitImage /\ [][NextImage]_vars

InitHandle ==
    StartHandle /\ PureIdle /\ GeoIdle /\ ImgIdle /\ ReplaceIdle /\ SectorIdle /\ AuthIdle /\ DeptIdle
        /\ LinkIdle
NextHandle ==
    \/ HConnect \/ HMigratorStart \/ HMigratorRow \/ HSectorRetry
    \/ HMigratorReturn \/ HTryEnd \/ HExcept \/ HFinally
SpecHandle == InitHandle /\ [][NextHandle]_vars
\* handle is one sequential run: it always takes its next step.
FairSpecHandle == SpecHandle /\ WF_vars(NextHandle)

InitReplace ==
    StartReplace /\ PureIdle /\ GeoIdle /\ ImgIdle /\ HandleIdle /\ SectorIdle /\ AuthIdle /\ DeptIdle
        /\ LinkIdle
NextReplace == RDeleteAndFetch \/ RRow \/ RReturn \/ RRunAgain
SpecReplace == InitReplace /\ [][NextReplace]_vars

InitSector ==
    StartSector /\ PureIdle /\ GeoIdle /\ ImgIdle /\ HandleIdle /\ ReplaceIdle /\ AuthIdle /\ DeptIdle
        /\ LinkIdle
NextSector ==
    \/ SecDeleteAndFetch \/ SecHierarchyRow \/ SecFetchTranslations
    \/ SecCreateGroup \/ SecCreateSector \/ SecNextGroup \/ SecReturn
SpecSector == InitSector /\ [][NextSector]_vars

InitAuth ==
    /\ StartAuth /\ PureIdle /\ GeoIdle /\ ImgIdle /\ HandleIdle /\ ReplaceIdle
    /\ SectorIdle /\ DeptIdle /\ LinkIdle
NextAuth ==
    \/ AOpenSignup \/ ACompleteForm \/ ASubmitSignup
    \/ AOpenLogin \/ ATypeCredentials \/ ASubmitLogin
SpecAuth == InitAuth /\ [][NextAuth]_vars

InitDept ==
    /\ StartDept /\ PureIdle /\ GeoIdle /\ ImgIdle /\ HandleIdle /\ ReplaceIdle
    /\ SectorIdle /\ AuthIdle /\ LinkIdle
NextDept == DeptLoad \/ DeptItem \/ DeptMissingAndReturn
SpecDept == InitDept /\ [][NextDept]_vars

InitLink ==
    /\ StartLink /\ PureIdle /\ GeoIdle /\ ImgIdle /\ HandleIdle /\ ReplaceIdle
    /\ SectorIdle /\ AuthIdle /\ DeptIdle
NextLink ==
    \/ UserDeleteAndFetch \/ UserRow \/ SiaeUserDeleteAndFetch
    \/ SiaeUserRow \/ SiaeUserReturn
SpecLink == InitLink /\ [][NextLink]_vars


(***************************************************************************)
(* Claims about the pure helpers (checked under SpecPure)                  *)
(***************************************************************************)
ItbDone == ppc = "done" /\ pfun = "integer_to_boolean"
PrestaDone == ppc = "done" /\ pfun = "map_siae_presta_type"

\* A value that is 1 (the integer, or True, which Python holds equal to 1).
IsOne(v) == v.t \in {"int", "bool"} /\ v.i = 1
IsZero(v) == v.t \in {"int", "bool"} /\ v.i = 0

\* C9: integer_to_boolean replaces, for every boolean-field key present in the
\* row, the value by True when it is 1 or "1", by False when it is 0 or "0",
\* by None when it is None and by False for anything else; the other keys keep
\* their values and no key is added or removed.
C9_IntegerToBoolean ==
    ItbDone =>
        /\ DOMAIN elem = DOMAIN elem0
        /\ \A k \in DOMAIN elem0 :
              IF k \notin boolean_keys THEN elem[k] = elem0[k]
              ELSE IF IsOne(elem0[k]) \/ elem0[k] = PyStr("1") THEN elem[k] = PyTrue
              ELSE IF IsZero(elem0[k]) \/ elem0[k] = PyStr("0") THEN elem[k] = PyFalse
              ELSE IF elem0[k] = PyNone THEN elem[k] = PyNone
              ELSE elem[k] = PyFalse

\* C9 witness: a row with "1", an unrecognised string and None under boolean
\* keys, a non-boolean key holding 1, and one boolean key absent, after the call.
C9_Witness ==
    /\ ItbDone
    /\ DOMAIN elem0 = {"is_active", "is_qpv", "accept_rgpd", "name"} \ {"accept_rgpd"}
    /\ elem0["is_active"] = PyStr("1") /\ elem["is_active"] = PyTrue
    /\ elem0["is_qpv"] = PyStr("yes") /\ elem["is_qpv"] = PyFalse
    /\ elem0["name"] = PyInt(1) /\ elem["name"] = PyInt(1)
    /\ "accept_rgpd" \notin DOMAIN elem

\* The table of the claim: the code n in {0, 2, .., 14}, written in ASCII
\* decimal, decomposes into the increments 2 (DISP), 4 (PREST) and 8 (BUILD).
ClaimedCodes == {0, 2, 4, 6, 8, 10, 12, 14}
AsciiOf(n) == IF n < 10 THEN <<48 + n>> ELSE <<49, 48 + (n - 10)>>
Increments(n) ==
    (IF (n \div 2) % 2 = 1 THEN <<PRESTA_DISP>> ELSE <<>>)
        \o (IF (n \div 4) % 2 = 1 THEN <<PRESTA_PREST>> ELSE <<>>)
        \o (IF (n \div 8) % 2 = 1 THEN <<PRESTA_BUILD>> ELSE <<>>)
ClaimedPresta(input) ==
    IF ~input.none /\ \E n \in ClaimedCodes : input.bytes = AsciiOf(n)
    THEN RetList(Increments(CHOOSE n \in ClaimedCodes : input.bytes = AsciiOf(n)))
    ELSE RetNone

\* C10: map_siae_presta_type maps b"0", b"2", .., b"14" by the fixed table
\* (the decomposition of the code into the increments 2, 4, 8) and yields None
\* for any other code, for the empty byte string and for None.
C10_PrestaTable == PrestaDone => presta_out = ClaimedPresta(presta_in)

MapperDone == ppc = "done" /\ pfun \in MapperNames
NatureEnums == {"NATURE_HEAD_OFFICE", "NATURE_ANTENNA"}
GeoRangeEnums == {"GEO_RANGE_COUNTRY", "GEO_RANGE_REGION", "GEO_RANGE_DEPARTMENT", "GEO_RANGE_CUSTOM"}
UserKindEnums == {"KIND_BUYER", "KIND_SIAE", "KIND_ADMIN", "KIND_PARTNER"}
EnumsOf(f) ==
    CASE f = "map_siae_nature" -> NatureEnums
      [] f = "map_geo_range" -> GeoRangeEnums
      [] f = "map_user_kind" -> UserKindEnums
EnumOrNone(f, out) ==
    \/ out = RetNone
    \/ \E x \in EnumsOf(f) : out = RetEnum(x)
IsInt(v, n) == v.t \in {"int", "bool"} /\ v.i = n
NatureKnown(v) == v \in {PyStr("siege"), PyStr("antenne"), PyStr("n/a")}

\* C11 as stated: the three enum mappers fail closed: for every input each
\* returns an enum value of its table or None and never raises.
C11_MappersFailClosed == MapperDone => EnumOrNone(pfun, map_out)

\* C11 amended: map_geo_range and map_user_kind fail closed: an enum value of
\* the table for the keys of the table (0..3; 3..6), None for anything else
\* (0 included for map_user_kind), never an exception.  map_siae_nature
\* returns None for a falsy input and for "n/a", the enum value for "siege"
\* and "antenne", and raises KeyError for any other input.
C11_GuardedMappersFailClosed ==
    MapperDone =>
        /\ pfun = "map_geo_range" =>
              /\ EnumOrNone(pfun, map_out)
              /\ (map_out = RetNone) <=> ~(\E n \in 0..3 : IsInt(map_in, n))
        /\ pfun = "map_user_kind" =>
              /\ EnumOrNone(pfun, map_out)
              /\ (map_out = RetNone) <=> ~(\E n \in 3..6 : IsInt(map_in, n))
        /\ pfun = "map_siae_nature" =>
              /\ PyTruthy(map_in) /\ ~NatureKnown(map_in) <=> map_out = Raised("KeyError")
              /\ map_out # Raised("KeyError") => EnumOrNone(pfun, map_out)
              /\ map_in = PyStr("siege") => map_out = RetEnum("NATURE_HEAD_OFFICE")
              /\ map_in = PyStr("antenne") => map_out = RetEnum("NATURE_ANTENNA")

\* C11 witness: map_user_kind was given an integer its table does not
\* hold and returned None.
C11_Witness ==
    /\ MapperDone /\ pfun = "map_user_kind"
    /\ map_in = PyInt(7) /\ map_out = RetNone


(***************************************************************************)
(* Claims about geocoding (checked under SpecGeo / FairSpecGeo)            *)
(***************************************************************************)
GeoDone == gpc = "done"
LastResponse == gresps[Len(gresps)]
\* The call reached process_geocoding_data.
ProcessRan == GeoDone /\ LastResponse.kind \notin {"network_error", "features_null"}

\* C6: geocoding errors never reach the caller: after a network failure, a
\* body that is not JSON, JSON without 'features', an empty feature list or a
\* first feature lacking expected properties, get_geocoding_data returns None
\* and raises nothing.
C6_ErrorsReturnNone ==
    GeoDone =>
        /\ gresult.kind # "raise"
        /\ (\/ LastResponse.kind \in {"network_error", "not_json", "no_features_key", "empty"}
            \/ LastResponse.kind = "feature" /\ LastResponse.f.props # "full")
              => gresult = GeoNone

C7_Requests ==
    /\ Len(gsent) <= 2
    /\ Len(gsent) = 2 => Truthy(gpost) /\ gresps[1].kind = "empty" /\ gsent = <<TRUE, FALSE>>
    /\ GeoDone /\ Truthy(gpost) /\ gresps[1].kind = "empty" => Len(gsent) = 2
    /\ GeoDone /\ Len(gresps) = 2 /\ gresps[2].kind = "empty" => gresult = GeoNone
    /\ GeoDone /\ ~Truthy(gpost) /\ gresps[1].kind = "empty"
          => Len(gsent) = 1 /\ gresult = GeoNone
    /\ GeoDone /\ gresps[1].kind \in {"network_error", "no_features_key", "not_json"}
          => Len(gsent) = 1

\* C7: call_ban_geocoding_api retries at most once: with a post_code and an
\* empty first feature list exactly one further request goes out, without the
\* postcode parameter, and a second empty list gives None; without a post_code
\* an empty list gives None with no retry; a network error, a missing key or a
\* JSON decode error triggers no retry; no call sends more than two requests
\* and every call terminates.
C7_RetryOnce == [](C7_Requests) /\ <>(gpc = "done")

\* C7 witness: a call with a post_code whose two requests (the second without
\* the postcode parameter) both came back empty has returned None.
C7_Witness ==
    /\ GeoDone /\ Truthy(gpost)
    /\ gsent = <<TRUE, FALSE>>
    /\ gresps[1].kind = "empty" /\ gresps[2].kind = "empty"
    /\ gresult = GeoNone

HasCoordinates == ~gfeature.none /\ ~gfeature.f.empty /\ gfeature.f.geom
NoProperties == gfeature.none \/ gfeature.f.empty \/ gfeature.f.props \in {"none", "empty"}
PointOf(f) == <<f.x, f.y>>

ImgFinished == ipc \in {"done", "raised"}
\* The listing_image rows of a listing, and the SiaeImages created for it.
ImagesOf(id) == {j \in 1..Len(listing_image) : listing_image[j].listing_id = id}
CreatedFor(id) == {a \in 1..Len(siae_images) : siae_images[a].c4_listing_id = id}
\* The listing_image rows whose listing exists and whose owner satisfies P.
HasListing(j) == \E p \in 1..Len(listing) : listing[p].id = listing_image[j].listing_id
OwnerOf(j) ==
    dusers[(CHOOSE l \in {listing[p] : p \in 1..Len(listing)} :
                l.id = listing_image[j].listing_id).user_id]
ImagesWhoseOwner(P(_)) ==
    {j \in 1..Len(listing_image) : HasListing(j) /\ P(OwnerOf(j))}
OwnerMissing(u) == ~u.present
OwnerWithoutSiae(u) == u.present /\ Cardinality(u.siaes) = 0
OwnerWithSeveralSiaes(u) == u.present /\ Cardinality(u.siaes) > 1

\* C1: once migrate_siae_image has run, every listing (at any position, with
\* or without a translation row) that has one listing_image row and whose
\* user exists with exactly one Siae has exactly one SiaeImage, for that image
\* and with that Siae; when the user has zero or several Siaes the listing has
\* no SiaeImage and user_no_siae / user_multiple_siae was incremented.
C1_OneImagePerOwnedListing ==
    ImgFinished =>
        \A p \in 1..Len(listing) :
            LET l == listing[p]
                u == dusers[l.user_id]
            IN (Cardinality(ImagesOf(l.id)) = 1 /\ u.present) =>
                  /\ Cardinality(u.siaes) = 1 =>
                        /\ Cardinality(CreatedFor(l.id)) = 1
                        /\ \A a \in CreatedFor(l.id) :
                              /\ siae_images[a].siae_id \in u.siaes
                              /\ \E j \in ImagesOf(l.id) :
                                    siae_images[a].image_name = listing_image[j].image_name
                  /\ Cardinality(u.siaes) = 0 =>
                        CreatedFor(l.id) = {} /\ error_count.user_no_siae >= 1
                  /\ Cardinality(u.siaes) > 1 =>
                        CreatedFor(l.id) = {} /\ error_count.user_multiple_siae >= 1

\* C2: missing or ambiguous ownership is never fatal: when the migrator has
\* returned, each listing image whose listing's user is missing, has no Siae
\* or has several Siaes has no SiaeImage and was counted once under
\* user_not_found, user_no_siae or user_multiple_siae, and each listing with
\* no image was counted once under listing_without_image.
C2_OwnershipErrorsCounted ==
    ipc = "done" =>
        /\ error_count.user_not_found = Cardinality(ImagesWhoseOwner(OwnerMissing))
        /\ error_count.user_no_siae = Cardinality(ImagesWhoseOwner(OwnerWithoutSiae))
        /\ error_count.user_multiple_siae = Cardinality(ImagesWhoseOwner(OwnerWithSeveralSiaes))
        /\ error_count.listing_without_image =
              Cardinality({p \in 1..Len(listing) : ImagesOf(listing[p].id) = {}})
        /\ \A a \in 1..Len(siae_images), j \in 1..Len(listing_image) :
              (/\ siae_images[a].image_name = listing_image[j].image_name
               /\ HasListing(j)) => Cardinality(OwnerOf(j).siaes) = 1


\* The joined structure is complete once the third loop is over.
Joined == ipc \in {"resolve", "done", "raised"}
\* The listing_image rows of a listing, in source order.
ImageRowsOf(id) == SelectSeq(listing_image, LAMBDA r : r.listing_id = id)
TranslationsOf(id) ==
    {j \in 1..Len(listing_translation) : listing_translation[j].translatable_id = id}
\* The images list of an entry is exactly the given rows, in their order.
SameImages(images, rows) ==
    /\ Len(images) = Len(rows)
    /\ \A a \in 1..Len(rows) :
          /\ images[a].image_name = rows[a].image_name
          /\ images[a].position = rows[a].position

\* C21: the joined structure has one entry per row of listing, keyed by the
\* listing id; for every listing, the first row included, the entry carries
\* the name of its listing_translation row and its images list holds every
\* listing_image row of that listing, each once and in source order.
C21_JoinedStructure ==
    Joined =>
        /\ Len(siae_listing_list) = Len(listing)
        /\ \A p \in 1..Len(listing) :
              LET entry == siae_listing_list[p]
                  id == listing[p].id
              IN /\ entry.listing_id = id
                 /\ entry.translated = (TranslationsOf(id) # {})
                 /\ entry.translated =>
                       \E j \in TranslationsOf(id) : entry.name = listing_translation[j].name
                 /\ SameImages(entry.images, ImageRowsOf(id))

\* C24: when the migrator completes, the SiaeImages created and the three
\* ownership counters add up to the listing_image rows whose listing exists,
\* and listing_without_image is the number of listings with no listing_image
\* row.
C24_Accounting ==
    ipc = "done" =>
        /\ Len(siae_images) + error_count.user_not_found + error_count.user_no_siae
              + error_count.user_multiple_siae
           = Cardinality({j \in 1..Len(listing_image) : HasListing(j)})
        /\ error_count.listing_without_image =
              Cardinality({p \in 1..Len(listing) : ImagesOf(listing[p].id) = {}})

(***************************************************************************)
(* Claims about Command.handle and the row loops (checked under            *)
(* FairSpecHandle)                                                         *)
(***************************************************************************)
\* not started -> running -> completed | rolled-back
Phase ==
    CASE conn = "none" -> "not started"
      [] conn = "open" -> "running"
      [] conn = "closed" /\ hrollbacks = 0 -> "completed"
      [] conn = "closed" /\ hrollbacks > 0 -> "rolled-back"
PhaseSteps ==
    {<<"not started", "running">>, <<"running", "completed">>, <<"running", "rolled-back">>}

C3_States ==
    /\ hcloses <= 1 /\ hrollbacks <= 1
    /\ (conn = "closed") <=> (hcloses = 1)
    /\ conn # "none" => hpc # "propagated"
    /\ hpc = "returned" =>
          /\ conn = "closed"
          /\ hrollbacks = (IF hexc # "" THEN 1 ELSE 0)

C3_Steps ==
    /\ Phase' # Phase => <<Phase, Phase'>> \in PhaseSteps
    /\ hrollbacks' # hrollbacks => conn = "open" /\ conn' = "open" /\ hexc # ""
    /\ conn = "closed" => UNCHANGED <<hcur, mpc, mrows, mrow, mout, mprinted>>

\* C3: once handle has opened the source connection the run goes not started
\* -> running -> completed or rolled-back: an exception that escapes a
\* migrator is followed by a rollback and then the close and does not leave
\* handle; without an exception the connection is closed without rollback; on
\* every path the connection is closed exactly once and no migrator runs
\* after the close.
C3_HandleLifecycle ==
    /\ [](C3_States)
    /\ [][C3_Steps]_vars
    /\ (conn = "open") ~> (conn = "closed" /\ hpc = "returned")

\* C3 witness: a KeyError left a migrator; handle rolled back once, closed
\* once and returned.
C3_Witness ==
    /\ hpc = "returned" /\ conn = "closed"
    /\ mpc = "raised" /\ hexc = "KeyError"
    /\ hrollbacks = 1 /\ hcloses = 1

EntityMigrators ==
    {"siae", "network", "sector", "siae_offer", "siae_label",
     "siae_client_reference_logo", "siae_image", "user"}
CreateFailed == mout \in {"write_error", "integrity_error"}

HasRun(w) == \E a \in 1..(hcur - 1) : MIGRATORS[a] = w /\ w \in enabled

\* C23: handle calls the migrators in dependency order: while a migrator
\* runs, every enabled migrator whose records it reads has run before it
\* (the Siae readers after migrate_siae, siae_network after migrate_network,
\* siae_sector after migrate_sector, user_image and siae_user after
\* migrate_user, migrate_siae_image after migrate_user and migrate_siae_user).
C23_DependencyOrder ==
    Running # "none" =>
        \A w \in Reads(Running) : w \in enabled => HasRun(w)

(***************************************************************************)
(* Claims about the delete-and-recreate cycle (checked under SpecReplace)  *)
(***************************************************************************)
RunEnded == rpc \in {"returned", "raised"}
Survivors == {r \in rdest : r.val = "old"}
\* An earlier iteration of this run wrote the record with key k.
RowWrote(k) == \E a \in 1..(ridx - 1) : rsrc[a].key = k /\ rsrc[a].kind = "ok"
SameAsAfterOneRun == rrun = 2 => rdest = rafter1

\* C5 as stated: every migrator is a full replace: after a run no record or
\* migrated value from before the run is left in the destination, and after
\* the second run the destination is what the first run left.
C5_FullReplace ==
    RunEnded => Survivors = {} /\ SameAsAfterOneRun

\* C5 amended: a second run on an unchanged source leaves the destination as
\* the first run left it, for every migrator; the migrators that start with
\* objects.all().delete() leave nothing from before the run; migrate_user
\* leaves exactly the users that had an api_key; migrate_siae_logo and
\* migrate_user_image delete nothing and leave the image_name of every record
\* they did not write to.
C5_ReplaceWhatIsDeleted ==
    RunEnded =>
        /\ SameAsAfterOneRun
        /\ ~WritesField(rmig) /\ rmig # "user" => Survivors = {}
        /\ rmig = "user" => Survivors = {r \in rdest0 : r.api}
        /\ WritesField(rmig) =>
              /\ Survivors = {r \in rdest0 : ~RowWrote(r.key)}
              /\ {r.key : r \in rdest} = {r.key : r \in rdest0}

\* C5 witness: the second run of migrate_user has returned; it deleted and
\* recreated a user of the source and left a user with an api_key alone.
C5_Witness ==
    /\ rmig = "user" /\ rrun = 2 /\ rpc = "returned"
    /\ \E r \in rdest : r.val = "old" /\ r.api
    /\ \E r \in rdest : r.val = "src"
    /\ \E r \in rdest0 : ~r.api


(***************************************************************************)
(* Claims about migrate_sector (checked under SpecSector)                  *)
(***************************************************************************)
SectorDone == spc = "done"
CategoryIds == {category[a].id : a \in 1..Len(category)}
RowsWithParent == {category[a].id : a \in {b \in 1..Len(category) : category[b].parent_id # 0}}
RowsWithoutParent == CategoryIds \ RowsWithParent
SectorIdsCreated == {s.id : s \in sectors}
GroupIdsCreated == {g.id : g \in sector_groups}

\* C12: after migrate_sector every created Sector's group id is the id of a
\* row of listing_category, whatever the rows (a parent_id without a row of
\* its own included).
C12_GroupIsSourceRow ==
    SectorDone => \A s \in sectors : s.group \in CategoryIds

\* C13: a child whose slug collides with a created Sector is created with
\* the slug '<slug>-<parent group id>', whatever the number of children that
\* share the slug and whatever their groups: the create never fails on the
\* slug, every Sector carries its translation's slug, bare or suffixed by its
\* group id, and the slugs of the created Sectors are pairwise distinct.
C13_SlugsDisambiguated ==
    /\ sexc # "IntegrityError"
    /\ \A s \in sectors :
          s.slug \in {Slug(translation[s.id], 0), Slug(translation[s.id], s.group)}
    /\ \A s, q \in sectors : s.slug = q.slug => s.id = q.id

\* C14: the result is a strict two-level hierarchy: every Sector references
\* one created SectorGroup, the rows with a parent_id are the Sectors, the
\* rows without are SectorGroups, and no id is both.
C14_TwoLevels ==
    SectorDone =>
        /\ \A s \in sectors : s.group \in GroupIdsCreated
        /\ \A s, q \in sectors : s.id = q.id => s = q
        /\ SectorIdsCreated = RowsWithParent
        /\ RowsWithoutParent \subseteq GroupIdsCreated
        /\ SectorIdsCreated \cap GroupIdsCreated = {}


\* The first loop is over: sector_group_list is the hierarchy.
HierarchyBuilt == spc \in {"create", "done", "raised"}

\* The two-pass construction.  Pass (a): one group entry per row lacking a
\* parent, in row order.
RECURSIVE PassA(_, _)
PassA(list, rows) ==
    IF rows = <<>> THEN list
    ELSE LET row == Head(rows)
         IN PassA(IF row.parent_id = 0 /\ GroupIndex(list, row.id) = 0
                  THEN Append(list, [id |-> row.id, children |-> <<>>])
                  ELSE list,
                  Tail(rows))
\* Pass (b): each child id appended to its parent's child list, a placeholder
\* group being appended when the parent was not seen.
RECURSIVE PassB(_, _)
PassB(list, rows) ==
    IF rows = <<>> THEN list
    ELSE LET row == Head(rows)
             withGroup == IF GroupIndex(list, row.parent_id) = 0
                          THEN Append(list, [id |-> row.parent_id, children |-> <<>>])
                          ELSE list
             g == GroupIndex(withGroup, row.parent_id)
         IN PassB(IF row.parent_id = 0 THEN list
                  ELSE [withGroup EXCEPT ![g].children = Append(@, row.id)],
                  Tail(rows))
TwoPass(rows) == PassB(PassA(<<>>, rows), rows)

GroupIdsOf(list) == {list[a].id : a \in 1..Len(list)}
ChildrenOf(list, id) == list[GroupIndex(list, id)].children
\* The places of a child id in the child lists of a group list.
PlacesOf(list, id) ==
    {p \in (1..Len(list)) \X (1..MaxSectorId) :
        p[2] <= Len(list[p[1]].children) /\ list[p[1]].children[p[2]] = id}
\* The first row that names the id, as its own id when it lacks a parent or
\* as its parent_id.
FirstMention(id) ==
    CHOOSE a \in 1..Len(category) :
        /\ category[a].parent_id = id \/ (category[a].id = id /\ category[a].parent_id = 0)
        /\ \A b \in 1..(a - 1) :
              ~(category[b].parent_id = id \/ (category[b].id = id /\ category[b].parent_id = 0))

\* C22: for every list of listing_category rows with distinct ids, in any row
\* order, the group list built by migrate_sector equals the output of the
\* two-pass construction: the same ordered list of group ids, each once, each
\* with the same ordered list of child ids.
C22_EqualsTwoPass ==
    HierarchyBuilt => sector_group_list = TwoPass(category)

\* C22 (amended): the group list has the same groups as the two-pass
\* construction, each group id once, each with the same ordered list of child
\* ids, and each child id in exactly one child list; the groups come in the
\* order of their first mention in the rows (as a parentless row or as the
\* parent_id of a child), which need not be the order of the two passes.
C22_SameGroupsUpToOrder ==
    HierarchyBuilt =>
        LET ref == TwoPass(category)
        IN /\ GroupIdsOf(sector_group_list) = GroupIdsOf(ref)
           /\ Len(sector_group_list) = Cardinality(GroupIdsOf(sector_group_list))
           /\ Len(ref) = Cardinality(GroupIdsOf(ref))
           /\ \A id \in GroupIdsOf(ref) :
                 ChildrenOf(sector_group_list, id) = ChildrenOf(ref, id)
           /\ \A id \in RowsWithParent : Cardinality(PlacesOf(sector_group_list, id)) = 1
           /\ \A a, b \in 1..Len(sector_group_list) :
                 a < b => FirstMention(sector_group_list[a].id)
                             < FirstMention(sector_group_list[b].id)
\* A child row precedes the row of its parent group, and the two orders differ.
C22_Witness ==
    /\ HierarchyBuilt
    /\ sector_group_list # TwoPass(category)
    /\ \E a, b \in 1..Len(category) :
          a < b /\ category[a].parent_id = category[b].id /\ category[b].parent_id = 0

(***************************************************************************)
(* Claims about the destination across a run of handle (FairSpecHandle)    *)
(***************************************************************************)
HandlingFailure == hpc \in {"except", "finally"} /\ hexc # ""
EnabledBefore(a) == {MIGRATORS[b] : b \in {c \in 1..(a - 1) : MIGRATORS[c] \in enabled}}
NothingUndone ==
    \A m \in MigratorNames :
        /\ hdest'[m].new >= hdest[m].new
        /\ hdest[m].old = "deleted" => hdest'[m].old = "deleted"

C15_Steps ==
    /\ HandlingFailure => hdest' = hdest
    /\ NothingUndone

C15_AfterFailure ==
    hpc = "returned" /\ hexc # "" =>
        /\ HasDelete(Running) => hdest[Running].old = "deleted"
        /\ hdest[Running].new <= mrow - 1
        /\ \A m \in EnabledBefore(hcur) : HasDelete(m) => hdest[m].old = "deleted"

\* C15: there is no cross-migrator atomicity: the handling of an exception
\* that left migrator k (source rollback, close) changes nothing in the
\* destination, no step of the run undoes a delete or a committed write, and
\* when handle has returned after the failure the deletes of the migrators
\* before k and of k itself stand, with whatever k wrote before the failing
\* row.
C15_NoCrossMigratorAtomicity ==
    /\ [][C15_Steps]_vars
    /\ [](C15_AfterFailure)

\* C15 witness: two migrators were enabled; the first wrote a record and
\* returned, the second deleted, wrote a record and raised on its second row;
\* handle has rolled back, closed and returned, and both writes are there.
C15_Witness ==
    /\ hpc = "returned" /\ hexc # "" /\ hrollbacks = 1 /\ mpc = "raised"
    /\ mrow = 2 /\ hdest[Running].new = 1 /\ hdest[Running].old = "deleted"
    /\ \E m \in EnabledBefore(hcur) : hdest[m].new >= 1


(***************************************************************************)
(* Claims about signup and login (checked under SpecAuth)                  *)
(***************************************************************************)
SignupSubmitted == apc = "submitted" /\ akind # ""
LoginSubmitted == apc = "submitted" /\ atyped # NoCredentials
NewUsers == ausers \ ausers0
LoggedIn == asession # Anonymous
TypedUser == {u \in ausers : u.email = Lower(atyped.email)}

MissesRequired ==
    \/ akind = KIND_SIAE /\ "last_name" \notin afilled
    \/ akind = KIND_BUYER /\ "position" \notin afilled
    \/ akind = KIND_PARTNER /\ "company_name" \notin afilled

\* C17: a signup form submitted without last_name (SIAE), position (BUYER) or
\* company_name (PARTNER) is not submitted: the browser stays on the signup
\* page, no User is created and nobody is logged in.
C17_SignupFailure ==
    SignupSubmitted /\ MissesRequired =>
        /\ apage = "auth:signup"
        /\ ausers = ausers0
        /\ ~LoggedIn

\* C17 witness: the BUYER profile without position was submitted, RGPD box
\* checked, and the browser is still on the signup page.
C17_Witness ==
    /\ SignupSubmitted /\ akind = KIND_BUYER /\ afilled = BUYER \ {"position"} /\ argpd
    /\ apage = "auth:signup" /\ ausers = ausers0

\* C18: a user who logs in with their email, typed in any letter case, and
\* their password lands on the dashboard home when their kind is SIAE and on
\* the SIAE search results when it is BUYER, logged in.
C18_LoginRedirect ==
    LoginSubmitted =>
        \A u \in ausers :
            u.email = Lower(atyped.email) /\ u.password # "" /\ u.password = atyped.password =>
                /\ asession = u.email
                /\ u.kind = KIND_SIAE => apage = "dashboard:home"
                /\ u.kind = KIND_BUYER => apage = "siae:search_results"

\* C18 witness: a SIAE user typed their email in capitals with the right
\* password and is on the dashboard.
C18_Witness ==
    /\ LoginSubmitted /\ atyped.email = <<"A", "B">> /\ atyped.password = DEFAULT_PASSWORD
    /\ AuthUser(<<"a", "b">>, KIND_SIAE, DEFAULT_PASSWORD) \in ausers
    /\ apage = "dashboard:home" /\ asession = <<"a", "b">>

\* C19: a login with a wrong password for an existing user stays on the login
\* page, not logged in, with the invalid-credentials message; a login for an
\* existing user whose stored password is empty stays on the login page too
\* and shows the 'password not yet defined' message instead.
C19_LoginFailure ==
    LoginSubmitted =>
        \A u \in TypedUser :
            /\ u.password # "" /\ u.password # atyped.password =>
                  apage = "auth:login" /\ ~LoggedIn /\ amessages = {"invalid credentials"}
            /\ u.password = "" =>
                  apage = "auth:login" /\ ~LoggedIn /\ amessages = {"password not yet defined"}

\* C19 witness: a user with an empty stored password tried to log in and
\* sees the 'password not yet defined' message on the login page.
C19_Witness ==
    /\ LoginSubmitted /\ \E u \in TypedUser : u.password = ""
    /\ apage = "auth:login" /\ amessages = {"password not yet defined"}


(***************************************************************************)
(* Claims about import_departements (checked under SpecDept)               *)
(***************************************************************************)
\* C20: with --dry-run the command creates, updates and deletes no
\* Perimeter: at every point of the run, and when it is done, the department
\* Perimeters are those from before the command.
C20_DryRunWritesNothing == dry_run => perimeters = perimeters0

\* C20 witness: a dry run over a file with an item that the table does not
\* hold and that passes the assertions is done.
C20_Witness ==
    /\ dry_run /\ dpc = "done" /\ Len(json_data) >= 1
    /\ Department(json_data[1]) \notin perimeters0
    /\ Department(MISSING_DEPARTMENTS[1]) \notin perimeters0

(***************************************************************************)
(* Claims about migrate_user and migrate_siae_user (checked under SpecLink)*)
(***************************************************************************)
UsersDeleted == upc \in {"user_rows", "link_rows", "done", "raised"}
LinksDeleted == upc \in {"link_rows", "done"}
\* The users this run of migrate_user created: the source carries no api_key.
Migrated == {u \in dest_users : ~u.api_key}
\* The mapped kind of the source row of a user id (None without a row).
KindOfSource(c4) ==
    IF c4 \in 1..Len(user_table) THEN map_user_kind(user_table[c4].person_type) ELSE RetNone
DirectoryUserRows == {directory_user[a] : a \in 1..Len(directory_user)}
\* No row makes a migrator fail, and every User created comes from a source
\* row whose person_type maps to a kind (3, 4, 5 or 6).
NoUserWithoutKind ==
    /\ upc # "raised" /\ uexc = ""
    /\ UsersDeleted =>
          \A u \in Migrated :
              KindOfSource(u.c4_id).kind = "enum" /\ KindOfSource(u.c4_id).tags = <<u.kind>>

=============================================================================
